---------------------------- MODULE Spec2Model ----------------------------
(***************************************************************************)
(* The disk job executor of Synapse (src/disk/job.rs): Request::execute    *)
(* and the constructors of the requests it runs.  One request is executed  *)
(* at a time by a single worker; a Validate or Download request hands back *)
(* a continuation (Update, Paused, Blocked) which is executed again.       *)
(***************************************************************************)
EXTENDS Integers, Sequences, FiniteSets, TLC

(***************************************************************************)
(* Bounds of the model.                                                    *)
(***************************************************************************)
\* Size of the bounce buffer of a Download, standing for the 16_384 bytes
\* of the source; files longer than the buffer are read in several chunks.
BufLen == 2
\* Length of the file a Download streams.
FileLen == 3
\* Largest number of ranges a Download request carries.
MaxRanges == 2
\* Number of pieces of the torrent a Validate scans.
NumPieces == 2
\* Largest number of bytes of the data of a Serialize request.
MaxData == 2
\* Number of requests handed to the executor.
MaxJobs == 3

VARIABLES
    job,      \* the kind of request the worker was handed
    pc,       \* position of the worker: "exec", "drain", "cont", "end"
    res,      \* the JobRes (or Err) the last call of execute returned
    nterm,    \* number of terminal results returned for the request
    resp,     \* the Response the last call of execute carried, if any
    dl,       \* the fields of Request::Download
    arg,      \* the arguments Request::download was called with
    sent,     \* the bytes the client socket has accepted, in order
    lastIor,  \* the IOR of the last awrite of this call of execute, if any
    dlExpired, \* whether the time slice of this call of execute has run out
    dlEntry,  \* what the Download had left to deliver when this call began
    tor,      \* a torrent's Info (locations, hashes) and the files on disk
    val,      \* the fields of Request::Validate / Request::ValidatePiece
    prevPct,  \* percent of the ValidationUpdate before the last one
    nupd,     \* number of Updates the Validate returned so far (2: two or more)
    valExpired, \* whether the time slice of this call of execute has run out
    valEntry, \* idx of the Validate when this call of execute began
    examined, \* the pieces the Validate has hashed, in order
    sreq,     \* the data of the Request::Serialize at hand
    tempf,    \* <session_dir>/<hex-hash>.temp
    finalf,   \* <session_dir>/<hex-hash>
    serialized, \* the data of the Serialize requests that returned Done
    disk,     \* the data files Write and Read work on
    wreq,     \* the last Request::Write executed, and whether it succeeded
    rreq,     \* the last Request::Read executed
    fcCalls,  \* the calls the last Write or Read made on the FileCache, in order
    mvFrom,   \* the directory from/target of a Move
    mvTo,     \* the directory to/target of a Move
    mvOrig,   \* from/target and to/target as they were when the Move began
    mvPath,   \* the way the Move arm went: which call failed, if any
    delReq,   \* the fields of Request::Delete
    delFs,    \* the session files, data files and directory of the torrent
    delOrig,  \* delFs and the File Cache as they were when the Delete began
    delFailed, \* the removals of the Delete that failed
    cache,    \* the paths the File Cache holds an open handle for
    delLog,   \* the calls the Delete made on the listed files, in order
    exKind,   \* the variant of each request handed to the executor
    exSt,     \* where each of them is: queued, deferred, running, done
    wfReq,    \* the data of the Request::WriteFile at hand
    wfTemp,   \* the path of the WriteFile with the extension temp
    wfTarget, \* the path of the WriteFile
    wfLast,   \* the step of the last WriteFile that failed, and path before it
    faLen,    \* the length of the file fallocate is called on
    faReq,    \* the len fallocate is called with
    faPc,     \* position of fallocate: "call" in its loop, "done" returned
    faErrno,  \* what the last native_fallocate answered
    faIntr,   \* number of times this call of fallocate was interrupted
    faRes,    \* what fallocate returned
    faOrig,   \* the length of the file when fallocate was called
    pmMsg,    \* the peer Message handed to encode
    pmOut,    \* the bytes encode wrote to the buffer
    pmSt,     \* "new" before encode is called, then how it ended
    lnPc,     \* position of Listener::run: "wait", "batch", "stopped"
    incoming, \* the incoming table: id -> bytes its Reader has read
    registered, \* the ids of the connections registered with the poller
    nextId,   \* the id the registrar gives to the next registration
    batch,    \* the notifications of the poll batch still to dispatch
    chan,     \* the Requests sent to the listener and not yet received
    backlog,  \* number of connections waiting to be accepted
    handed,   \* the ids of the connections sent to the control channel
    lnLast    \* the last notification dispatched and what came of it

dlVars == <<dl, arg, sent, lastIor, dlExpired, dlEntry>>
valVars == <<tor, val, prevPct, nupd, valExpired, valEntry, examined>>
serVars == <<sreq, tempf, finalf, serialized>>
rwVars == <<disk, wreq, rreq, fcCalls>>
mvVars == <<mvFrom, mvTo, mvOrig, mvPath>>
delVars == <<delReq, delFs, delOrig, delFailed, cache, delLog>>
exVars == <<exKind, exSt>>
wfVars == <<wfReq, wfTemp, wfTarget, wfLast>>
faVars == <<faLen, faReq, faPc, faErrno, faIntr, faRes, faOrig>>
pmVars == <<pmMsg, pmOut, pmSt>>
lnVars == <<lnPc, incoming, registered, nextId, batch, chan, backlog, handed, lnLast>>
vars == <<job, pc, res, nterm, resp, dlVars, valVars, serVars, rwVars, mvVars, delVars, exVars, wfVars, faVars, pmVars, lnVars>>

\* What the arms of execute leave alone.
notDl == <<resp, valVars, serVars, rwVars, mvVars, delVars, exVars, wfVars, faVars, pmVars, lnVars>>
notVal == <<dlVars, serVars, rwVars, mvVars, delVars, exVars, wfVars, faVars, pmVars, lnVars>>
notSer == <<resp, dlVars, valVars, rwVars, mvVars, delVars, exVars, wfVars, faVars, pmVars, lnVars>>
notRw == <<dlVars, valVars, serVars, mvVars, delVars, exVars, wfVars, faVars, pmVars, lnVars>>
notMv == <<dlVars, valVars, serVars, rwVars, delVars, exVars, wfVars, faVars, pmVars, lnVars>>
notDel == <<resp, dlVars, valVars, serVars, rwVars, mvVars, exVars, wfVars, faVars, pmVars, lnVars>>
notEx == <<job, pc, res, nterm, resp, dlVars, valVars, serVars, rwVars, mvVars, delVars, wfVars, faVars, pmVars, lnVars>>
notWf == <<dlVars, valVars, serVars, rwVars, mvVars, delVars, exVars, faVars, pmVars, lnVars>>
notFa == <<job, pc, res, nterm, resp, dlVars, valVars, serVars, rwVars, mvVars, delVars, exVars, wfVars, pmVars, lnVars>>
notPm == <<job, pc, res, nterm, resp, dlVars, valVars, serVars, rwVars, mvVars, delVars, exVars, wfVars, faVars, lnVars>>
notLn == <<job, pc, res, nterm, resp, dlVars, valVars, serVars, rwVars, mvVars, delVars, exVars, wfVars, faVars, pmVars>>

(***************************************************************************)
(* JobRes                                                                  *)
(***************************************************************************)
\* The results that carry a Request to execute again.
Continuations == {"Update", "Paused", "Blocked"}
\* The results that end a request: Ok(Done), Ok(Resp(_)) and Err(_).
Terminals == {"Done", "Resp", "Err"}

Min(a, b) == IF a < b THEN a ELSE b

Range(f) == { f[i] : i \in DOMAIN f }

RECURSIVE Flatten(_)
Flatten(ss) == IF ss = <<>> THEN <<>> ELSE Head(ss) \o Flatten(Tail(ss))

(***************************************************************************)
(* Bytes on the wire.  A byte of the file is identified by its offset, so  *)
(* that a lost, repeated or misplaced byte shows; a header line is one     *)
(* unit of the socket's stream, written or split like any other.           *)
(***************************************************************************)
Tok(t, a, b, c) == [t |-> t, a |-> a, b |-> b, c |-> c]
FileByte(off) == Tok("data", off, 0, 0)
Zero == Tok("zero", 0, 0, 0)

HttpRange(s, l) == [start |-> s, length |-> l]

\* The modulus of the u64 arithmetic of the source, 2^64, cut to 2^16: the
\* offsets of the model stay far below either.
U64 == 65536

\* The inclusive end of a range as the headers print it: start + length - 1
\* in u64, which wraps below 0 in a release build (a debug build panics).
RangeEnd(r) == (r.start + r.length - 1) % U64

\* lines.join("\r\n") of Request::download.
ResponseHeaders(ranges, ranged, len) ==
    IF ranged
    THEN IF Len(ranges) = 1
         THEN << Tok("206 Content-Length", ranges[1].length, 0, 0),
                 Tok("Content-Range", ranges[1].start, RangeEnd(ranges[1]), len) >>
         ELSE << Tok("206", 0, 0, 0), Tok("multipart/byteranges", 0, 0, 0) >>
    ELSE << Tok("200", 0, 0, 0), Tok("Content-Length", len, 0, 0) >>

\* The part header execute formats on a range advance.
PartHeader(r, len) ==
    << Tok("MP_BOUNDARY", 0, 0, 0), Tok("Content-Range", r.start, RangeEnd(r), len) >>

\* A closing boundary of no bytes.
CloserEmpty == << >>

\* format!("\r\n--{}--", MP_BOUNDARY)
Closer == << Tok("MP_BOUNDARY--", 0, 0, 0) >>

\* (&mut buf[..data.len()]).copy_from_slice(data): the rest of buf is kept.
CopyInto(buf, data) == data \o SubSeq(buf, Len(data) + 1, Len(buf))

\* fc.read_file_range(path, offset, &mut buf[0..amnt]) on success.
FileSlice(offset, amnt) == [i \in 1..amnt |-> FileByte(offset + i - 1)]

(***************************************************************************)
(* Request::download                                                       *)
(***************************************************************************)
\* Request::download without the collapse of a single range: the sentinel is
\* prepended and ranged kept whenever the caller asks for ranges.
downloadAlwaysMultipart(ranges, ranged, len) ==
    LET data == ResponseHeaders(ranges, ranged, len)
    IN  [ ranges    |-> IF ranged THEN <<HttpRange(0, 0)>> \o ranges ELSE ranges,
          ranged    |-> ranged,
          range_idx |-> 0,
          writing   |-> TRUE,
          buf       |-> CopyInto([i \in 1..BufLen |-> Zero], data),
          buf_idx   |-> 0,
          buf_max   |-> Len(data),
          file_len  |-> len ]

download(ranges, ranged, len) ==
    LET data == ResponseHeaders(ranges, ranged, len)
        multi == ranged /\ Len(ranges) # 1
    IN  [ ranges    |-> IF multi THEN <<HttpRange(0, 0)>> \o ranges ELSE ranges,
          ranged    |-> multi,
          range_idx |-> 0,
          writing   |-> TRUE,
          buf       |-> CopyInto([i \in 1..BufLen |-> Zero], data),
          buf_idx   |-> 0,
          buf_max   |-> Len(data),
          file_len  |-> len ]

\* The ranges a caller may ask for: inside the file, possibly empty.
Ranges == { HttpRange(s, l) : s \in 0..(FileLen - 1), l \in 0..FileLen }
RangeLists == UNION { [1..n -> { r \in Ranges : r.start + r.length <= FileLen }] : n \in 0..MaxRanges }

\* The framing a Download has yet to encode: a part header for each range
\* it will advance to, and the closing boundary of a multipart response.
RECURSIVE Framing(_, _)
Framing(d, k) ==
    IF k >= Len(d.ranges) THEN 0
    ELSE (IF k + 1 < Len(d.ranges) THEN 2 ELSE IF d.ranged THEN 1 ELSE 0) + Framing(d, k + 1)

RECURSIVE Lengths(_)
Lengths(ranges) == IF ranges = << >> THEN 0 ELSE Head(ranges).length + Lengths(Tail(ranges))

\* What a Download has left to deliver: the lengths left in its ranges, the
\* part of the buffer not yet written, and the framing to come.
Left(d) ==
    Lengths(d.ranges) + (IF d.writing THEN d.buf_max - d.buf_idx ELSE 0) + Framing(d, d.range_idx)

NoDownload == [ ranges |-> <<>>, ranged |-> FALSE, range_idx |-> 0, writing |-> FALSE,
                buf |-> <<>>, buf_idx |-> 0, buf_max |-> 0, file_len |-> 0 ]
NoArg == [ ranges |-> <<>>, ranged |-> FALSE ]

DlInit ==
    /\ \E rs \in RangeLists, rg \in BOOLEAN :
          /\ arg = [ranges |-> rs, ranged |-> rg]
          /\ dl = download(rs, rg, FileLen)
    /\ sent = <<>>
    /\ lastIor = "None"
    /\ dlExpired = FALSE
    /\ dlEntry = Left(dl)

DlIdle == /\ dl = NoDownload /\ arg = NoArg /\ sent = <<>> /\ lastIor = "None"
          /\ dlExpired = FALSE /\ dlEntry = 0

(***************************************************************************)
(* Results of one call of execute                                          *)
(***************************************************************************)
\* return Ok(JobRes::Paused(..)) / Ok(JobRes::Blocked(..)) / Ok(JobRes::Update(..))
Yield(r) == /\ res' = r
            /\ pc' = "cont"
            /\ nterm' = nterm

\* return Ok(JobRes::Done) / Ok(JobRes::Resp(..)) / Err(..)
Finish(r) == /\ res' = r
             /\ pc' = "end"
             /\ nterm' = nterm + 1

(***************************************************************************)
(* Request::execute, Download arm                                          *)
(***************************************************************************)
\* util::awrite(&buf[buf_idx..buf_max], &mut client): what one non-blocking
\* write of a slice can answer.  A write of nothing answers Ok(0), read as EOF.
AWrite(slice) ==
    { [ior |-> "Complete", w |-> Len(slice)] : x \in { y \in {1} : Len(slice) > 0 } }
    \cup { [ior |-> "Incomplete", w |-> w] : w \in 1..(Len(slice) - 1) }
    \cup { [ior |-> "Blocked", w |-> 0], [ior |-> "EOF", w |-> 0], [ior |-> "Err", w |-> 0] }

\* DlAdvance that stays on the range it is at and writes the buffer again.
DlAdvanceResendsBuffer ==
    /\ job = "Download" /\ pc = "exec"
    /\ ~dlExpired
    /\ ~dl.writing
    /\ dl.range_idx < Len(dl.ranges)
    /\ dl.ranges[dl.range_idx + 1].length = 0
    /\ dl' = [dl EXCEPT !.buf_idx = 0, !.writing = TRUE]
    /\ UNCHANGED <<job, pc, res, nterm, arg, sent, lastIor, dlExpired, dlEntry, notDl>>

\* DlPaused with a continuation that starts its buffer again: buf_idx: 0.
DlPausedRewinds ==
    /\ job = "Download" /\ pc = "exec"
    /\ dlExpired
    /\ Yield("Paused")
    /\ dl' = [dl EXCEPT !.buf_idx = 0]
    /\ UNCHANGED <<job, arg, sent, lastIor, dlExpired, dlEntry, notDl>>

\* start.elapsed() reaches JOB_TIME_SLICE, at any point of the call.
DlTick ==
    /\ job = "Download" /\ pc \in {"exec", "drain"}
    /\ ~dlExpired
    /\ dlExpired' = TRUE
    /\ UNCHANGED <<job, pc, res, nterm, dl, arg, sent, lastIor, dlEntry, notDl>>

\* while start.elapsed() < JOB_TIME_SLICE fails: the slice is used up.
DlPaused ==
    /\ job = "Download" /\ pc = "exec"
    /\ dlExpired
    /\ Yield("Paused")
    /\ UNCHANGED <<job, dlVars, notDl>>

\* if writing { loop { match awrite(..) } }
DlWrite ==
    /\ job = "Download"
    /\ \/ pc = "exec" /\ ~dlExpired /\ dl.writing
       \/ pc = "drain"
    /\ LET slice == SubSeq(dl.buf, dl.buf_idx + 1, dl.buf_max) IN
       \E o \in AWrite(slice) :
          /\ lastIor' = o.ior
          /\ CASE o.ior = "Complete" ->
                 /\ sent' = sent \o slice
                 /\ dl' = [dl EXCEPT !.writing = FALSE]
                 /\ pc' = "exec"
                 /\ UNCHANGED <<res, nterm>>
            [] o.ior = "Incomplete" ->
                 /\ sent' = sent \o SubSeq(slice, 1, o.w)
                 /\ dl' = [dl EXCEPT !.buf_idx = dl.buf_idx + o.w]
                 /\ pc' = "drain"
                 /\ UNCHANGED <<res, nterm>>
            [] o.ior = "Blocked" ->
                 /\ Yield("Blocked")
                 /\ UNCHANGED <<dl, sent>>
            [] OTHER ->
                 /\ Finish("Err")
                 /\ UNCHANGED <<dl, sent>>
    /\ UNCHANGED <<job, arg, dlExpired, dlEntry, notDl>>

\* DlDone without its return: Done is answered and the loop goes on.
DlDoneFallsThrough ==
    /\ job = "Download" /\ pc = "exec"
    /\ ~dlExpired
    /\ ~dl.writing
    /\ dl.range_idx = Len(dl.ranges)
    /\ res' = "Done" /\ nterm' = nterm + 1
    /\ UNCHANGED <<job, pc, dlVars, notDl>>

\* else if range_idx == ranges.len() { return Ok(JobRes::Done) }
DlDone ==
    /\ job = "Download" /\ pc = "exec"
    /\ ~dlExpired
    /\ ~dl.writing
    /\ dl.range_idx = Len(dl.ranges)
    /\ Finish("Done")
    /\ UNCHANGED <<job, dlVars, notDl>>

\* else if ranges[range_idx].length == 0 { range_idx += 1; ... }
DlAdvance ==
    /\ job = "Download" /\ pc = "exec"
    /\ ~dlExpired
    /\ ~dl.writing
    /\ dl.range_idx < Len(dl.ranges)
    /\ dl.ranges[dl.range_idx + 1].length = 0
    /\ LET idx == dl.range_idx + 1 IN
       IF idx = Len(dl.ranges)
       THEN IF dl.ranged
            THEN dl' = [dl EXCEPT !.range_idx = idx,
                                  !.buf = CopyInto(dl.buf, Closer),
                                  !.buf_idx = 0,
                                  !.buf_max = Len(Closer),
                                  !.writing = TRUE]
            ELSE dl' = [dl EXCEPT !.range_idx = idx]
       ELSE LET data == PartHeader(dl.ranges[idx + 1], dl.file_len) IN
            dl' = [dl EXCEPT !.range_idx = idx,
                             !.buf = CopyInto(dl.buf, data),
                             !.buf_idx = 0,
                             !.buf_max = Len(data),
                             !.writing = TRUE]
    /\ UNCHANGED <<job, pc, res, nterm, arg, sent, lastIor, dlExpired, dlEntry, notDl>>

\* else { read up to 16 KiB of the current range into buf }
DlRead ==
    /\ job = "Download" /\ pc = "exec"
    /\ ~dlExpired
    /\ ~dl.writing
    /\ dl.range_idx < Len(dl.ranges)
    /\ dl.ranges[dl.range_idx + 1].length # 0
    /\ LET r == dl.ranges[dl.range_idx + 1]
           amnt == Min(r.length, BufLen)
       IN  \/ /\ dl' = [dl EXCEPT !.ranges[dl.range_idx + 1] =
                                       HttpRange(r.start + amnt, r.length - amnt),
                                  !.buf = CopyInto(dl.buf, FileSlice(r.start, amnt)),
                                  !.buf_max = amnt,
                                  !.buf_idx = 0,
                                  !.writing = TRUE]
              /\ UNCHANGED <<pc, res, nterm>>
           \/ \* fc.read_file_range(..)? fails
              /\ Finish("Err")
              /\ UNCHANGED dl
    /\ UNCHANGED <<job, arg, sent, lastIor, dlExpired, dlEntry, notDl>>

\* The continuation of a Paused or Blocked result is executed again.
DlResume ==
    /\ job = "Download" /\ pc = "cont"
    /\ pc' = "exec"
    /\ lastIor' = "None"
    /\ dlExpired' = FALSE
    /\ dlEntry' = Left(dl)
    /\ UNCHANGED <<job, res, nterm, dl, arg, sent, notDl>>

NextDownload == DlTick \/ DlPaused \/ DlWrite \/ DlDone \/ DlAdvance \/ DlRead \/ DlResume

(***************************************************************************)
(* Torrent info, the files on disk and the hash                            *)
(***************************************************************************)
\* Location::new
Location(file, file_len, offset, start, end, allocate) ==
    [file |-> file, file_len |-> file_len, offset |-> offset,
     start |-> start, end |-> end, allocate |-> allocate]

\* Byte i of piece p as the torrent's content defines it.
Data(p, i) == (p + i) % 2
PieceData(p) == << Data(p, 0), Data(p, 1) >>

\* Info::piece_disk_locs(info, p) for the three ways a piece lies on disk:
\* "A" inside one file shared by the pieces, "B" across two files, "C" across
\* two files with an empty file between them (a location with start = end).
PieceLocs(shape, p) ==
    CASE shape = "A" -> << Location(0, 2 * NumPieces, 2 * p, 0, 2, TRUE) >>
      [] shape = "B" -> << Location(3 * p + 1, 1, 0, 0, 1, FALSE),
                           Location(3 * p + 2, 1, 0, 1, 2, FALSE) >>
      [] shape = "C" -> << Location(3 * p + 1, 1, 0, 0, 1, FALSE),
                           Location(3 * p + 3, 0, 0, 1, 1, FALSE),
                           Location(3 * p + 2, 1, 0, 1, 2, FALSE) >>

Files == 0..(3 * NumPieces)

\* What each file holds when it is on disk and complete.
FileData(f) ==
    IF f = 0 THEN Flatten([q \in 1..NumPieces |-> PieceData(q - 1)])
    ELSE CASE f % 3 = 1 -> << Data((f - 1) \div 3, 0) >>
           [] f % 3 = 2 -> << Data((f - 2) \div 3, 1) >>
           [] OTHER     -> << >>

\* FileCache::read_file_range(path, offset, &mut out): the n bytes at offset,
\* or an error when the file cannot be opened or is too short.
read_file_range(d, file, offset, n) ==
    IF d[file].exists /\ offset + n <= Len(d[file].data)
    THEN [ok |-> TRUE, data |-> SubSeq(d[file].data, offset + 1, offset + n)]
    ELSE [ok |-> FALSE, data |-> << >>]

\* sha::Sha1: a digest that tells any two byte strings apart (bytes 0 and 1
\* are the digits 1 and 2 of a number written in base 3).
Sha1New == 0
RECURSIVE Sha1Update(_, _)
Sha1Update(ctx, bytes) ==
    IF bytes = << >> THEN ctx
    ELSE Sha1Update(ctx * 3 + Head(bytes) + 1, Tail(bytes))
Sha1(bytes) == Sha1Update(Sha1New, bytes)

\* info.pieces()
pieces(t) == Len(t.hashes)

(***************************************************************************)
(* Request::execute, ValidatePiece arm                                     *)
(***************************************************************************)
\* PieceDigest feeding the hash every location but the first.
RECURSIVE PieceDigestSkipsFirst(_, _, _)
PieceDigestSkipsFirst(t, locs, ctx) ==
    IF Len(locs) <= 1 THEN ctx
    ELSE LET loc == locs[Len(locs)]
             r == read_file_range(t.disk, loc.file, loc.offset, loc.end - loc.start)
         IN  Sha1Update(PieceDigestSkipsFirst(t, SubSeq(locs, 1, Len(locs) - 1), ctx),
                        IF r.ok THEN r.data ELSE << >>)

\* for loc in locs { read_file_range(..).map(|_| ctx.update(..)).ok(); }
RECURSIVE PieceDigest(_, _, _)
PieceDigest(t, locs, ctx) ==
    IF locs = << >> THEN ctx
    ELSE LET loc == Head(locs)
             r == read_file_range(t.disk, loc.file, loc.offset, loc.end - loc.start)
         IN  PieceDigest(t, Tail(locs), IF r.ok THEN Sha1Update(ctx, r.data) ELSE ctx)

\* valid: digest[..] == info.hashes[piece][..]
ValidatePiece(t, piece) ==
    PieceDigest(t, t.locs[piece + 1], Sha1New) = t.hashes[piece + 1]

\* Ctx::new
Ctx(pid, tid, idx, begin, length) ==
    [pid |-> pid, tid |-> tid, idx |-> idx, begin |-> begin, length |-> length]
NoCtx == Ctx(0, 0, 0, 0, 0)

\* Response, one record for its variants.
NoResp == [kind |-> "None", invalid |-> << >>, piece |-> 0, valid |-> FALSE,
           num |-> 0, den |-> 1, context |-> NoCtx, data |-> << >>, space |-> 0,
           path |-> "None"]
PieceValidated(piece, valid) == [NoResp EXCEPT !.kind = "PieceValidated",
                                               !.piece = piece, !.valid = valid]
\* ValidationUpdate with the quotient turned over: pieces / idx.
ValidationUpdateInverted(idx, n) == [NoResp EXCEPT !.kind = "ValidationUpdate",
                                                   !.num = n, !.den = idx]
\* percent: idx as f32 / pieces as f32, kept as the fraction num / den.
ValidationUpdate(idx, n) == [NoResp EXCEPT !.kind = "ValidationUpdate",
                                           !.num = idx, !.den = n]
validation_complete(invalid) == [NoResp EXCEPT !.kind = "ValidationComplete",
                                               !.invalid = invalid]

VpExecute ==
    /\ job = "ValidatePiece" /\ pc = "exec"
    /\ resp' = PieceValidated(val.idx, ValidatePiece(tor, val.idx))
    /\ Finish("Resp")
    /\ UNCHANGED <<job, valVars, notVal>>

(***************************************************************************)
(* Request::execute, Validate arm                                          *)
(***************************************************************************)
\* The inner loop over the locations of one piece: stops at the first read
\* that fails.
RECURSIVE ScanLocs(_, _, _, _)
ScanLocs(t, locs, ctx, valid) ==
    IF locs = << >> \/ ~valid THEN [ctx |-> ctx, valid |-> valid]
    ELSE LET loc == Head(locs)
             r == read_file_range(t.disk, loc.file, loc.offset, loc.end - loc.start)
         IN  ScanLocs(t, Tail(locs), IF r.ok THEN Sha1Update(ctx, r.data) ELSE ctx,
                      valid /\ r.ok)

\* PieceInvalid by the digest alone, a failed read left aside.
PieceInvalidByHashOnly(t, idx) ==
    ScanLocs(t, t.locs[idx + 1], Sha1New, TRUE).ctx # t.hashes[idx + 1]

\* if !valid || digest[..] != info.hashes[idx][..] { invalid.push(idx) }
PieceInvalid(t, idx) ==
    LET s == ScanLocs(t, t.locs[idx + 1], Sha1New, TRUE)
    IN  ~s.valid \/ s.ctx # t.hashes[idx + 1]

\* Request::validate: idx 0 and no invalid piece.
validate == [idx |-> 0, invalid |-> << >>]

\* A continuation that starts the scan again at piece 0.
ValidateContinuationRestarts(v) == [idx |-> 0, invalid |-> v.invalid]

\* A continuation that starts its invalid list afresh.
ValidateContinuationDropsInvalid(v) == [idx |-> v.idx, invalid |-> << >>]

\* The Request::Validate an Update carries.
ValidateContinuation(v) == [idx |-> v.idx, invalid |-> v.invalid]

\* ValPiece without the test of the clock.
ValPieceIgnoresClock ==
    /\ job = "Validate" /\ pc = "exec"
    /\ val.idx < pieces(tor)
    /\ examined' = Append(examined, val.idx)
    /\ val' = [idx     |-> val.idx + 1,
               invalid |-> IF PieceInvalid(tor, val.idx)
                           THEN Append(val.invalid, val.idx) ELSE val.invalid]
    /\ UNCHANGED <<job, pc, res, nterm, resp, tor, prevPct, nupd, valExpired, valEntry, notVal>>

\* start.elapsed() reaches JOB_TIME_SLICE, at any point of the call.
ValTick ==
    /\ job = "Validate" /\ pc = "exec"
    /\ ~valExpired
    /\ valExpired' = TRUE
    /\ UNCHANGED <<job, pc, res, nterm, resp, tor, val, prevPct, nupd, valEntry, examined, notVal>>

\* One turn of the while loop: piece idx is hashed.
ValPiece ==
    /\ job = "Validate" /\ pc = "exec"
    /\ val.idx < pieces(tor)
    /\ ~valExpired
    /\ examined' = Append(examined, val.idx)
    /\ val' = [idx     |-> val.idx + 1,
               invalid |-> IF PieceInvalid(tor, val.idx)
                           THEN Append(val.invalid, val.idx) ELSE val.invalid]
    /\ UNCHANGED <<job, pc, res, nterm, resp, tor, prevPct, nupd, valExpired, valEntry, notVal>>

\* The loop is left: every piece was hashed, or the time slice is used up.
ValReturn ==
    /\ job = "Validate" /\ pc = "exec"
    /\ val.idx = pieces(tor) \/ valExpired
    /\ IF val.idx = pieces(tor)
       THEN /\ resp' = validation_complete(val.invalid)
            /\ Finish("Resp")
            /\ UNCHANGED <<val, prevPct, nupd>>
       ELSE /\ resp' = ValidationUpdate(val.idx, pieces(tor))
            /\ prevPct' = [num |-> resp.num, den |-> resp.den]
            /\ nupd' = Min(nupd + 1, 2)
            /\ val' = ValidateContinuation(val)
            /\ Yield("Update")
    /\ UNCHANGED <<job, tor, valExpired, valEntry, examined, notVal>>

\* The Request of an Update is executed again.
ValResume ==
    /\ job = "Validate" /\ pc = "cont"
    /\ pc' = "exec"
    /\ valExpired' = FALSE
    /\ valEntry' = val.idx
    /\ UNCHANGED <<job, res, nterm, resp, tor, val, prevPct, nupd, examined, notVal>>

NextValidate == VpExecute \/ ValTick \/ ValPiece \/ ValReturn \/ ValResume

\* The torrents and disks examined: every piece lies on disk in one of the
\* three ways, its hash is that of its data or of its first byte alone, and
\* up to two files are missing.
Shapes == {"A", "B", "C"}
Torrents ==
    { [locs   |-> [q \in 1..NumPieces |-> PieceLocs(sh[q], q - 1)],
       hashes |-> [q \in 1..NumPieces |->
                      IF q \in good THEN Sha1(PieceData(q - 1))
                      ELSE Sha1(<< Data(q - 1, 0) >>)],
       disk   |-> [f \in Files |-> [exists |-> f \notin missing, data |-> FileData(f)]]] :
      sh \in [1..NumPieces -> Shapes],
      good \in SUBSET (1..NumPieces),
      missing \in { m \in SUBSET Files : Cardinality(m) <= 2 } }

NoTorrent == [locs |-> << >>, hashes |-> << >>, disk |-> << >>]

ValInit ==
    /\ tor \in Torrents
    /\ prevPct = [num |-> 0, den |-> 1]
    /\ nupd = 0
    /\ valExpired = FALSE /\ valEntry = 0 /\ examined = << >>
    /\ \/ job = "Validate" /\ val = validate
       \/ job = "ValidatePiece" /\ \E p \in 0..(NumPieces - 1) : val = [idx |-> p, invalid |-> << >>]

ValIdle == /\ tor = NoTorrent /\ val = validate /\ prevPct = [num |-> 0, den |-> 1] /\ nupd = 0
           /\ valExpired = FALSE /\ valEntry = 0 /\ examined = << >>

(***************************************************************************)
(* Request::execute, Serialize arm                                         *)
(***************************************************************************)
NoFile == [exists |-> FALSE, data |-> << >>]
File(data) == [exists |-> TRUE, data |-> data]

\* OpenOptions::new().write(true).create(true).open(p): the file is made
\* when it is not there, and is opened as it is when it is.
OpenCreate(f) == IF f.exists THEN f ELSE File(<< >>)

\* f.write(bytes) on a file just opened: the bytes replace those at the
\* start of the file, what follows them stays.
WriteAtStart(f, bytes) == File(bytes \o SubSeq(f.data, Len(bytes) + 1, Len(f.data)))

\* The data a Serialize request may carry: up to MaxData bytes, all 0 or
\* all 1 (what is left of two requests in one file then shows as a mix).
SerData == { [i \in 1..n |-> b] : n \in 0..MaxData, b \in {0, 1} }

\* The whole arm: open the temp file, write_all, rename; `?` returns at the
\* first step that fails.
Serialize ==
    /\ job = "Serialize" /\ pc = "exec"
    /\ \/ \* open(&temp)? fails
          /\ Finish("Err")
          /\ UNCHANGED <<tempf, finalf, serialized>>
       \/ \* f.write_all(&data)? fails after k bytes
          /\ \E k \in 0..(Len(sreq) - 1) :
                tempf' = WriteAtStart(OpenCreate(tempf), SubSeq(sreq, 1, k))
          /\ Finish("Err")
          /\ UNCHANGED <<finalf, serialized>>
       \/ \* fs::rename(temp, actual)? fails
          /\ tempf' = WriteAtStart(OpenCreate(tempf), sreq)
          /\ Finish("Err")
          /\ UNCHANGED <<finalf, serialized>>
       \/ \* every step succeeds: Ok(JobRes::Done)
          /\ finalf' = WriteAtStart(OpenCreate(tempf), sreq)
          /\ tempf' = NoFile
          /\ serialized' = serialized \cup {sreq}
          /\ Finish("Done")
    /\ UNCHANGED <<job, sreq, notSer>>

\* The next Serialize request for the same hash reaches the worker.
SerNext ==
    /\ job = "Serialize" /\ pc = "end"
    /\ sreq' \in SerData
    /\ pc' = "exec" /\ res' = "None" /\ nterm' = 0
    /\ UNCHANGED <<job, tempf, finalf, serialized, notSer>>

NextSerialize == Serialize \/ SerNext

SerInit ==
    /\ sreq \in SerData
    /\ tempf = NoFile /\ finalf = NoFile
    /\ serialized = {}

SerIdle == sreq = << >> /\ tempf = NoFile /\ finalf = NoFile /\ serialized = {}

(***************************************************************************)
(* Request::execute, Write and Read arms                                   *)
(***************************************************************************)
\* FileCache::write_file_range(path, len_hint, offset, bytes) on success:
\* the file is made when it is not there (with its full length when the
\* location asks for allocation) and the bytes are put at offset.
Pad(bytes, n) == bytes \o [i \in 1..(n - Len(bytes)) |-> 0]
write_file_range(f, allocate, file_len, offset, bytes) ==
    LET old == IF f.exists THEN f.data
               ELSE IF allocate THEN Pad(<< >>, file_len) ELSE << >>
        room == Pad(old, offset + Len(bytes))
    IN  File([i \in 1..Len(room) |->
                 IF i > offset /\ i <= offset + Len(bytes) THEN bytes[i - offset]
                 ELSE room[i]])

\* WriteLocs taking the bytes of every location from the start of the buffer:
\* &data[..loc.end - loc.start].
RECURSIVE WriteLocsFromBufferStart(_, _, _, _)
WriteLocsFromBufferStart(d, locs, data, upto) ==
    IF locs = << >> \/ upto = 1 THEN d
    ELSE LET loc == Head(locs) IN
         WriteLocsFromBufferStart(
             [d EXCEPT ![loc.file] =
                 write_file_range(d[loc.file], loc.allocate, loc.file_len, loc.offset,
                                  SubSeq(data, 1, loc.end - loc.start))],
             Tail(locs), data, upto - 1)

\* for loc in locations { fc.write_file_range(.., &data[loc.start..loc.end])?; }
\* stopped before location `upto` (all of them when upto = Len(locs) + 1).
RECURSIVE WriteLocs(_, _, _, _)
WriteLocs(d, locs, data, upto) ==
    IF locs = << >> \/ upto = 1 THEN d
    ELSE LET loc == Head(locs) IN
         WriteLocs([d EXCEPT ![loc.file] =
                        write_file_range(d[loc.file], loc.allocate, loc.file_len, loc.offset,
                                         SubSeq(data, loc.start + 1, loc.end))],
                   Tail(locs), data, upto - 1)

\* for loc in locations { fc.read_file_range(.., &mut data[loc.start..loc.end])?; }
\* the buffer after the loop, and whether every read succeeded.
RECURSIVE ReadLocs(_, _, _)
ReadLocs(d, locs, data) ==
    IF locs = << >> THEN [ok |-> TRUE, data |-> data]
    ELSE LET loc == Head(locs)
             r == read_file_range(d, loc.file, loc.offset, loc.end - loc.start)
         IN  IF ~r.ok THEN [ok |-> FALSE, data |-> data]
             ELSE ReadLocs(d, Tail(locs),
                           [i \in 1..Len(data) |->
                               IF i > loc.start /\ i <= loc.end THEN r.data[i - loc.start]
                               ELSE data[i]])

\* Response::read
ReadResp(context, data) == [NoResp EXCEPT !.kind = "Read", !.context = context, !.data = data]

\* The location lists of one block: inside one file, across two files, and
\* across two files with a location of no bytes.
BlockLocs ==
    { << Location(0, 3, 1, 0, 2, TRUE) >>,
      << Location(0, 3, 2, 0, 1, TRUE), Location(1, 2, 0, 1, 2, FALSE) >>,
      << Location(0, 3, 2, 0, 1, FALSE), Location(2, 0, 0, 1, 1, FALSE),
         Location(1, 2, 0, 1, 2, TRUE) >> }
Blocks == [1..2 -> {0, 1}]
Contexts == { Ctx(1, 1, 0, 0, 2), Ctx(2, 1, 0, 0, 2) }
\* What a buffer handed to a Read holds before it is filled.
Stale == << 2, 2 >>

\* The length of a block, 16_384 in the source: the size of the buffer a
\* Write carries.
BlockLen == 2

\* A call on the FileCache for location k of the request, and how it ended.
Call(name, k, ok) == [name |-> name, loc |-> k, ok |-> ok]

\* A Write arm that flushes after every write.
FlushesAfterEveryWrite(loc) == TRUE

\* if loc.end - loc.start != 16_384 { fc.flush_file(&pb); }
Flushes(loc) == loc.end - loc.start # BlockLen

\* The calls of the loop of the Write arm for the locations k .. upto - 1,
\* every write_file_range succeeding.
RECURSIVE WriteCalls(_, _, _)
WriteCalls(locs, k, upto) ==
    IF k >= upto \/ k > Len(locs) THEN << >>
    ELSE << Call("write_file_range", k, TRUE) >>
         \o (IF Flushes(locs[k]) THEN << Call("flush_file", k, TRUE) >> ELSE << >>)
         \o WriteCalls(locs, k + 1, upto)

\* The calls of the loop of the Read arm from location k on, up to the
\* first read_file_range that fails.
RECURSIVE ReadCalls(_, _, _)
ReadCalls(d, locs, k) ==
    IF k > Len(locs) THEN << >>
    ELSE LET loc == locs[k]
             r == read_file_range(d, loc.file, loc.offset, loc.end - loc.start)
         IN  << Call("read_file_range", k, r.ok) >>
             \o (IF r.ok THEN ReadCalls(d, locs, k + 1) ELSE << >>)

\* A Write that goes on with the locations after the one whose write failed.
WriteGoesOnAfterFailure ==
    /\ job = "ReadWrite" /\ pc = "exec"
    /\ \E locs \in BlockLocs, data \in Blocks :
          \/ /\ disk' = WriteLocs(disk, locs, data, Len(locs) + 1)
             /\ wreq' = [locations |-> locs, data |-> data, ok |-> TRUE]
             /\ fcCalls' = WriteCalls(locs, 1, Len(locs) + 1)
             /\ Finish("Done")
          \/ \E k \in 1..Len(locs) :
                /\ disk' = WriteLocs(disk, locs, data, k)
                /\ wreq' = [locations |-> locs, data |-> data, ok |-> FALSE]
                /\ fcCalls' = WriteCalls(locs, 1, k)
                                \o << Call("write_file_range", k, FALSE) >>
                                \o WriteCalls(locs, k + 1, Len(locs) + 1)
                /\ Finish("Err")
    /\ resp' = NoResp
    /\ UNCHANGED <<job, rreq, notRw>>

\* Request::Write is executed: Done, or the error of the first write that
\* fails, returned by `?` with no call after it.
Write ==
    /\ job = "ReadWrite" /\ pc = "exec"
    /\ \E locs \in BlockLocs, data \in Blocks :
          \/ /\ disk' = WriteLocs(disk, locs, data, Len(locs) + 1)
             /\ wreq' = [locations |-> locs, data |-> data, ok |-> TRUE]
             /\ fcCalls' = WriteCalls(locs, 1, Len(locs) + 1)
             /\ Finish("Done")
          \/ \E k \in 1..Len(locs) :
                /\ disk' = WriteLocs(disk, locs, data, k)
                /\ wreq' = [locations |-> locs, data |-> data, ok |-> FALSE]
                /\ fcCalls' = WriteCalls(locs, 1, k)
                                \o << Call("write_file_range", k, FALSE) >>
                /\ Finish("Err")
    /\ resp' = NoResp
    /\ UNCHANGED <<job, rreq, notRw>>

\* Request::Read is executed: Resp(Response::Read) or the error of a read.
Read ==
    /\ job = "ReadWrite" /\ pc = "exec"
    /\ \E locs \in BlockLocs, context \in Contexts :
          LET r == ReadLocs(disk, locs, Stale) IN
          /\ rreq' = [locations |-> locs, context |-> context]
          /\ fcCalls' = ReadCalls(disk, locs, 1)
          /\ IF r.ok THEN Finish("Resp") /\ resp' = ReadResp(context, r.data)
                     ELSE Finish("Err") /\ resp' = NoResp
    /\ UNCHANGED <<job, disk, wreq, notRw>>

\* The next Write or Read request reaches the worker.
RwNext ==
    /\ job = "ReadWrite" /\ pc = "end"
    /\ pc' = "exec" /\ res' = "None" /\ nterm' = 0
    /\ UNCHANGED <<job, resp, rwVars, notRw>>

NextReadWrite == Write \/ Read \/ RwNext

NoWrite == [locations |-> << >>, data |-> << >>, ok |-> FALSE]
NoRead == [locations |-> << >>, context |-> NoCtx]

RwInit ==
    /\ disk = [f \in 0..2 |-> NoFile]
    /\ wreq = NoWrite
    /\ rreq = NoRead
    /\ fcCalls = << >>

RwIdle == disk = << >> /\ wreq = NoWrite /\ rreq = NoRead /\ fcCalls = << >>

(***************************************************************************)
(* Request::execute, Ping and FreeSpace arms                               *)
(***************************************************************************)
\* Request::Ping => {}, then Ok(JobRes::Done) at the end of execute.
Ping ==
    /\ job = "Ping" /\ pc = "exec"
    /\ Finish("Done")
    /\ UNCHANGED <<job, resp, dlVars, valVars, serVars, rwVars, mvVars, delVars, exVars, wfVars, faVars, pmVars, lnVars>>

\* Response::FreeSpace(fragment_size * blocks_available)
FreeSpaceResp(fragment_size, blocks_available) ==
    [NoResp EXCEPT !.kind = "FreeSpace", !.space = fragment_size * blocks_available]

\* statvfs of the download directory answers, or fails.
FreeSpace ==
    /\ job = "FreeSpace" /\ pc = "exec"
    /\ \/ \E fragment_size \in {1, 2}, blocks_available \in 0..2 :
             /\ resp' = FreeSpaceResp(fragment_size, blocks_available)
             /\ Finish("Resp")
       \/ /\ Finish("Err")
          /\ UNCHANGED resp
    /\ UNCHANGED <<job, dlVars, valVars, serVars, rwVars, mvVars, delVars, exVars, wfVars, faVars, pmVars, lnVars>>

NextSimple == Ping \/ FreeSpace

(***************************************************************************)
(* Request::execute, Move arm                                              *)
(***************************************************************************)
\* A directory tree: whether it is there, and its files by their path below
\* it, each with its content.
NoDir == [exists |-> FALSE, files |-> {}]
Dir(files) == [exists |-> TRUE, files |-> files]
Entry(path, data) == [path |-> path, data |-> data]

\* fs::rename(&fp, &tp): the directory takes the place of tp, which must be
\* absent or an empty directory; across filesystems the answer is EXDEV; any
\* other error may come and leaves both as they are.
rename(from, to, xdev) ==
    (IF xdev THEN { [err |-> "EXDEV", from |-> from, to |-> to] } ELSE {})
    \cup (IF ~xdev /\ (~to.exists \/ to.files = {})
          THEN { [err |-> "None", from |-> NoDir, to |-> from] } ELSE {})
    \cup { [err |-> "Other", from |-> from, to |-> to] }

\* The files of a directory named target as they lie below its parent.
Nested(files) == { Entry(<< "target" >> \o f.path, f.data) : f \in files }

\* fs_extra::dir::copy(&fp, &tp, &CopyOptions::new()): with the default
\* options (no copy_inside, no content_only, no overwrite) the directory fp
\* is copied INTO tp, as tp/<name of fp>; tp must be there, and no file of
\* the copy may be there already.  A copy that fails has copied some files.
dir_copy(from, to) ==
    IF ~to.exists THEN { [ok |-> FALSE, to |-> to] }
    ELSE LET clash == { f \in Nested(from.files) : \E g \in to.files : g.path = f.path }
         IN  (IF clash = {}
              THEN { [ok |-> TRUE, to |-> Dir(to.files \cup Nested(from.files))] } ELSE {})
             \cup { [ok |-> FALSE, to |-> Dir(to.files \cup Nested(part))] :
                      part \in (SUBSET from.files) \ {from.files} }

\* A remove_dir_all that answers Ok and removes nothing.
remove_dir_all_keeps(d) == { [ok |-> TRUE, dir |-> d] }

\* fs::remove_dir_all(p): the tree is gone, or the call fails (as it does
\* when nothing is at p) and some of the files are left.
remove_dir_all(d) ==
    IF ~d.exists THEN { [ok |-> FALSE, dir |-> d] }
    ELSE { [ok |-> TRUE, dir |-> NoDir] }
         \cup { [ok |-> FALSE, dir |-> Dir(rest)] : rest \in SUBSET d.files }

\* Response::moved
moved(path) == [NoResp EXCEPT !.kind = "Moved", !.path = path]

\* The whole arm: rename, and on EXDEV copy then remove the source, or on a
\* failed copy remove the destination.
Move ==
    /\ job = "Move" /\ pc = "exec"
    /\ \E r \in rename(mvFrom, mvTo, mvOrig.xdev) :
          CASE r.err = "None" ->
                 /\ mvFrom' = r.from /\ mvTo' = r.to
                 /\ mvPath' = "rename"
                 /\ resp' = moved("to")
                 /\ Finish("Resp")
            [] r.err = "EXDEV" ->
                 \E c \in dir_copy(mvFrom, mvTo) :
                    IF c.ok
                    THEN \E d \in remove_dir_all(mvFrom) :
                            /\ mvTo' = c.to /\ mvFrom' = d.dir
                            /\ IF d.ok
                               THEN /\ mvPath' = "copy"
                                    /\ resp' = moved("to")
                                    /\ Finish("Resp")
                               ELSE /\ mvPath' = "copy, remove failed"
                                    /\ resp' = NoResp
                                    /\ Finish("Err")
                    ELSE \E d \in remove_dir_all(c.to) :
                            /\ mvTo' = d.dir /\ mvFrom' = mvFrom
                            /\ mvPath' = IF d.ok THEN "copy failed"
                                         ELSE "copy failed, remove failed"
                            /\ resp' = NoResp
                            /\ Finish("Err")
            [] OTHER ->
                 /\ mvPath' = "rename failed"
                 /\ resp' = NoResp
                 /\ Finish("Err")
                 /\ UNCHANGED <<mvFrom, mvTo>>
    /\ UNCHANGED <<job, mvOrig, notMv>>

\* The next Move reaches the worker, for the directories as they are now.
MvNext ==
    /\ job = "Move" /\ pc = "end"
    /\ mvFrom.exists
    /\ mvOrig' = [mvOrig EXCEPT !.from = mvFrom, !.to = mvTo]
    /\ mvPath' = "None"
    /\ resp' = NoResp
    /\ pc' = "exec" /\ res' = "None" /\ nterm' = 0
    /\ UNCHANGED <<job, mvFrom, mvTo, notMv>>

NextMove == Move \/ MvNext

\* The directories a Move finds: from/target with one or two files, and
\* to/target absent, empty, or holding files of its own.
FromTrees ==
    { Dir({Entry(<< "a" >>, d)} \cup extra) :
        d \in {0, 1}, extra \in { {}, {Entry(<< "sub", "b" >>, 1)} } }
ToTrees ==
    { NoDir, Dir({}), Dir({Entry(<< "z" >>, 0)}), Dir({Entry(<< "target", "a" >>, 1)}) }

MvInit ==
    /\ mvFrom \in FromTrees
    /\ mvTo \in ToTrees
    /\ \E x \in BOOLEAN : mvOrig = [from |-> mvFrom, to |-> mvTo, xdev |-> x]
    /\ mvPath = "None"

MvIdle == mvFrom = NoDir /\ mvTo = NoDir /\ mvOrig = [from |-> NoDir, to |-> NoDir, xdev |-> FALSE]
          /\ mvPath = "None"

(***************************************************************************)
(* Request::execute, Delete arm                                            *)
(***************************************************************************)
\* The session files of the torrent, its directory and the files in it: two
\* that the torrent lists and one it does not.
SessionFiles == {"hash", "hash.torrent"}
TorrentDir == "t"
DataFiles == {"t/a", "t/b", "t/x"}

\* fs::remove_file(p): the file goes unless it is absent or the call fails.
remove_file(present, f, fail) == IF f \in fail THEN present ELSE present \ {f}

\* The removals among `tried` that did not remove their target.
Failed(tried, present, fail) == { f \in tried : f \in fail \/ f \notin present }

\* The body of the loop with the file deleted before its handle is evicted.
DeleteFileUnlinksFirst(st, f, artifacts, fail) ==
    [ files |-> IF artifacts THEN remove_file(st.files, f, fail) ELSE st.files,
      cache |-> st.cache \ {f},
      log   |-> st.log \o (IF artifacts THEN << << "fs::remove_file", f >> >> ELSE << >>)
                      \o << << "fc.remove_file", f >> >> ]

\* The body of the loop over the files: fc.remove_file(&pb), then
\* fs::remove_file(&pb) if artifacts.
DeleteFile(st, f, artifacts, fail) ==
    [ files |-> IF artifacts THEN remove_file(st.files, f, fail) ELSE st.files,
      cache |-> st.cache \ {f},
      log   |-> st.log \o << << "fc.remove_file", f >> >>
                      \o (IF artifacts THEN << << "fs::remove_file", f >> >> ELSE << >>) ]

\* for file in &files { .. }
RECURSIVE DeleteFiles(_, _, _, _)
DeleteFiles(st, files, artifacts, fail) ==
    IF files = << >> THEN st
    ELSE DeleteFiles(DeleteFile(st, Head(files), artifacts, fail), Tail(files), artifacts, fail)

\* fs::remove_dir(&pb): only a directory with nothing in it is removed.
remove_dir(dir, files, fail) == dir /\ ~(files = {} /\ TorrentDir \notin fail)

\* The whole arm; every removal may fail, and none of the failures is returned.
Delete ==
    /\ job = "Delete" /\ pc = "exec"
    /\ \E fail \in SUBSET (SessionFiles \cup DataFiles \cup {TorrentDir}) :
          LET session == remove_file(remove_file(delFs.session, "hash", fail), "hash.torrent", fail)
              st == DeleteFiles([files |-> delFs.files, cache |-> cache, log |-> << >>],
                                delReq.files, delReq.artifacts, fail)
              dir == IF delReq.files # << >> THEN remove_dir(delFs.dir, st.files, fail)
                     ELSE delFs.dir
          IN  /\ delFs' = [session |-> session, files |-> st.files, dir |-> dir]
              /\ cache' = st.cache
              /\ delLog' = st.log
              /\ delFailed' = Failed(SessionFiles, delFs.session, fail)
                               \cup (IF delReq.artifacts
                                     THEN Failed(Range(delReq.files), delFs.files, fail) ELSE {})
                               \cup (IF delReq.files # << >> /\ dir THEN {TorrentDir} ELSE {})
    /\ Finish("Done")
    /\ UNCHANGED <<job, delReq, delOrig, notDel>>

NextDelete == Delete

\* The Delete requests and the disks they find.
DelInit ==
    /\ \E fs \in { << >>, << "t/a" >>, << "t/a", "t/b" >> }, a \in BOOLEAN :
          delReq = [files |-> fs, artifacts |-> a]
    /\ \E se \in SUBSET SessionFiles, fi \in SUBSET DataFiles, d \in BOOLEAN :
          /\ fi # {} => d
          /\ delFs = [session |-> se, files |-> fi, dir |-> d]
    /\ cache \in SUBSET delFs.files
    /\ delOrig = [fs |-> delFs, cache |-> cache]
    /\ delFailed = {}
    /\ delLog = << >>

NoDelFs == [session |-> {}, files |-> {}, dir |-> FALSE]
DelIdle ==
    /\ delReq = [files |-> << >>, artifacts |-> FALSE]
    /\ delFs = NoDelFs
    /\ delOrig = [fs |-> NoDelFs, cache |-> {}]
    /\ delFailed = {} /\ cache = {} /\ delLog = << >>

(***************************************************************************)
(* Request::concurrent and the executor that defers                        *)
(***************************************************************************)
\* A concurrent() that lets every request run.
concurrentForEveryRequest(j) == TRUE

\* Request::concurrent: false for Validate, true for any other variant.
concurrent(j) == IF j = "Validate" THEN FALSE ELSE TRUE

\* The requests in flight that must not be interleaved with another.
Exclusive ==
    { r \in DOMAIN exSt : exSt[r] \in {"running", "updated"} /\ ~concurrent(exKind[r]) }

\* The executor takes the oldest queued request: it is run, or deferred when
\* it is not concurrent and such a request is already in flight.
ExAccept ==
    /\ job = "None"
    /\ \E r \in DOMAIN exSt :
          /\ exSt[r] = "queued"
          /\ \A q \in DOMAIN exSt : q < r => exSt[q] # "queued"
          /\ exSt' = [exSt EXCEPT ![r] = IF ~concurrent(exKind[r]) /\ Exclusive # {}
                                          THEN "deferred" ELSE "running"]
    /\ UNCHANGED <<exKind, notEx>>

\* One call of execute on a request in flight: a Validate may hand back an
\* Update, whose request is a Request::Validate again; anything else ends.
ExExecute ==
    /\ job = "None"
    /\ \E r \in DOMAIN exSt :
          /\ exSt[r] = "running"
          /\ \/ /\ exKind[r] = "Validate"
                /\ exKind' = [exKind EXCEPT ![r] = "Validate"]
                /\ exSt' = [exSt EXCEPT ![r] = "updated"]
             \/ /\ exSt' = [exSt EXCEPT ![r] = "done"]
                /\ UNCHANGED exKind
    /\ UNCHANGED notEx

\* The request of an Update goes back in flight.
ExResume ==
    /\ job = "None"
    /\ \E r \in DOMAIN exSt :
          /\ exSt[r] = "updated"
          /\ exSt' = [exSt EXCEPT ![r] = "running"]
    /\ UNCHANGED <<exKind, notEx>>

\* A deferred request is run once no request that excludes it is in flight.
ExUndefer ==
    /\ job = "None"
    /\ \E r \in DOMAIN exSt :
          /\ exSt[r] = "deferred"
          /\ Exclusive = {}
          /\ exSt' = [exSt EXCEPT ![r] = "running"]
    /\ UNCHANGED <<exKind, notEx>>

NextExecutor == ExAccept \/ ExExecute \/ ExResume \/ ExUndefer

ExInit ==
    /\ exKind \in [1..MaxJobs -> {"Validate", "ValidatePiece", "Write"}]
    /\ exSt = [r \in 1..MaxJobs |-> "queued"]

ExIdle == exKind = << >> /\ exSt = << >>

(***************************************************************************)
(* Request::tid and what the executor does with the result of execute      *)
(***************************************************************************)
\* A tid that answers Some for every request.
tidOfEveryRequest(j) == "Some"

\* Request::tid: Some(tid) for the requests made for a torrent, else None.
tid(j) ==
    IF j \in {"WriteFile", "Download", "Shutdown", "Ping", "FreeSpace"} THEN "None" ELSE "Some"

\* The kind of Response the control plane gets for the last result of
\* execute: the Response of a Resp or an Update, Error{tid} for an error of
\* a request that has a tid; any other error is logged and nothing is sent.
Emitted ==
    CASE res \in {"Resp", "Update"} -> resp.kind
      [] res = "Err" -> IF tid(job) = "Some" THEN "Error" ELSE "None"
      [] OTHER -> "None"

(***************************************************************************)
(* Request::execute, WriteFile arm                                         *)
(***************************************************************************)
\* The data a WriteFile request may carry.
WfData == UNION { [1..n -> {0, 1}] : n \in 0..MaxData }

\* f.write(&data[..]): one call of write, which takes the first n bytes of
\* the data, all of them or fewer, and answers Ok(n).
WriteCounts(data) == IF data = << >> THEN {0} ELSE 1..Len(data)

\* The whole arm: the temp path is opened (made when not there, not
\* truncated), written with one write, and renamed onto the path; every
\* failure is logged and the arm falls through to Ok(JobRes::Done).
WriteFile ==
    /\ job = "WriteFile" /\ pc = "exec"
    /\ \/ \* Err(e): open(&p) fails
          /\ wfLast' = [failed |-> "open", before |-> wfTarget]
          /\ UNCHANGED <<wfTemp, wfTarget>>
       \/ \* Ok(Err(e)): f.write fails; fs::remove_file(&p).ok() removes p or fails
          /\ wfLast' = [failed |-> "write", before |-> wfTarget]
          /\ wfTemp' \in {NoFile, OpenCreate(wfTemp)}
          /\ UNCHANGED wfTarget
       \/ \* Ok(Ok(_)): fs::rename(&p, &path).ok() fails
          /\ wfLast' = [failed |-> "rename", before |-> wfTarget]
          /\ \E n \in WriteCounts(wfReq) :
                wfTemp' = WriteAtStart(OpenCreate(wfTemp), SubSeq(wfReq, 1, n))
          /\ UNCHANGED wfTarget
       \/ \* Ok(Ok(_)): fs::rename(&p, &path).ok() succeeds
          /\ wfLast' = [failed |-> "none", before |-> wfTarget]
          /\ \E n \in WriteCounts(wfReq) :
                wfTarget' = WriteAtStart(OpenCreate(wfTemp), SubSeq(wfReq, 1, n))
          /\ wfTemp' = NoFile
    /\ Finish("Done")
    /\ resp' = NoResp
    /\ UNCHANGED <<job, wfReq, notWf>>

\* The next WriteFile request for the same path reaches the worker.
WfNext ==
    /\ job = "WriteFile" /\ pc = "end"
    /\ wfReq' \in WfData
    /\ pc' = "exec" /\ res' = "None" /\ nterm' = 0
    /\ UNCHANGED <<job, resp, wfTemp, wfTarget, wfLast, notWf>>

NextWriteFile == WriteFile \/ WfNext

NoWriteFile == [failed |-> "none", before |-> NoFile]

WfInit ==
    /\ wfReq \in WfData
    /\ wfTemp = NoFile
    /\ wfTarget \in {NoFile, File(<< 1, 0 >>)}
    /\ wfLast = [failed |-> "none", before |-> wfTarget]

WfIdle == wfReq = << >> /\ wfTemp = NoFile /\ wfTarget = NoFile /\ wfLast = NoWriteFile

(***************************************************************************)
(* util::native::fallocate                                                 *)
(***************************************************************************)
\* Largest length of the file and of the request of a fallocate, and the
\* largest number of interruptions of one call.
MaxLen == 2
MaxIntr == 2

\* fallocate that gives up when it is interrupted.
FaInterruptedGivesUp ==
    /\ job = "fallocate" /\ faPc = "call"
    /\ faIntr < MaxIntr
    /\ faErrno' = "EINTR"
    /\ faIntr' = faIntr + 1
    /\ faPc' = "done" /\ faRes' = "Err"
    /\ UNCHANGED <<faLen, faReq, faOrig, notFa>>

\* Errno::EINTR => continue
FaInterrupted ==
    /\ job = "fallocate" /\ faPc = "call"
    /\ faIntr < MaxIntr
    /\ faErrno' = "EINTR"
    /\ faIntr' = faIntr + 1
    /\ UNCHANGED <<faLen, faReq, faPc, faRes, faOrig, notFa>>

\* 0 => return Ok(true): the file has room for len bytes.
FaAllocated ==
    /\ job = "fallocate" /\ faPc = "call"
    /\ faErrno' = "0"
    /\ faLen' = IF faLen < faReq THEN faReq ELSE faLen
    /\ faPc' = "done" /\ faRes' = "Ok(true)"
    /\ UNCHANGED <<faReq, faIntr, faOrig, notFa>>

\* Errno::EOPNOTSUPP | Errno::ENOSYS => { f.set_len(len)?; return Ok(false); }
FaUnsupported ==
    /\ job = "fallocate" /\ faPc = "call"
    /\ faErrno' \in {"EOPNOTSUPP", "ENOSYS"}
    /\ \/ faLen' = faReq /\ faRes' = "Ok(false)"
       \/ faLen' = faLen /\ faRes' = "Err(set_len)"
    /\ faPc' = "done"
    /\ UNCHANGED <<faReq, faIntr, faOrig, notFa>>

\* Errno::ENOSPC => return io_err("Out of disk space!")
FaNoSpace ==
    /\ job = "fallocate" /\ faPc = "call"
    /\ faErrno' = "ENOSPC"
    /\ faPc' = "done" /\ faRes' = "Err(Out of disk space!)"
    /\ UNCHANGED <<faLen, faReq, faIntr, faOrig, notFa>>

\* e => return io_err(e.desc())
FaOtherErrno ==
    /\ job = "fallocate" /\ faPc = "call"
    /\ faErrno' \in {"EBADF", "EFBIG", "EIO"}
    /\ faPc' = "done" /\ faRes' = "Err(desc)"
    /\ UNCHANGED <<faLen, faReq, faIntr, faOrig, notFa>>

\* native_fallocate answers something other than an interruption.
FaAnswered == FaAllocated \/ FaUnsupported \/ FaNoSpace \/ FaOtherErrno

\* fallocate is called again, on the file as the last call left it.
FaNext ==
    /\ job = "fallocate" /\ faPc = "done"
    /\ faReq' \in 0..MaxLen
    /\ faPc' = "call" /\ faErrno' = "None" /\ faIntr' = 0 /\ faRes' = "None"
    /\ faOrig' = faLen
    /\ UNCHANGED <<faLen, notFa>>

NextFallocate == FaInterrupted \/ FaAllocated \/ FaUnsupported \/ FaNoSpace \/ FaOtherErrno \/ FaNext

FaInit ==
    /\ faLen \in 0..MaxLen /\ faReq \in 0..MaxLen
    /\ faPc = "call" /\ faErrno = "None" /\ faIntr = 0 /\ faRes = "None"
    /\ faOrig = faLen

FaIdle ==
    /\ faLen = 0 /\ faReq = 0 /\ faPc = "done" /\ faErrno = "None" /\ faIntr = 0
    /\ faRes = "None" /\ faOrig = 0

(***************************************************************************)
(* torrent::peer::message: Message::len and Message::encode                *)
(***************************************************************************)
\* Largest number of bytes of the data of a Piece, of the payload of an
\* Extension and of a Bitfield.
MaxPayload == 2

\* The modulus of the u32 arithmetic of the source, 2^32, cut to 2^16.
U32 == 65536

\* write_u8, write_u16::<BigEndian>, write_u32::<BigEndian>: the w bytes of
\* n, the most significant first.
RECURSIVE BE(_, _)
BE(n, w) == IF w = 0 THEN << >> ELSE BE(n \div 256, w - 1) \o << n % 256 >>

\* The number some big-endian bytes are read as.
RECURSIVE FromBE(_)
FromBE(bytes) ==
    IF bytes = << >> THEN 0
    ELSE FromBE(SubSeq(bytes, 1, Len(bytes) - 1)) * 256 + bytes[Len(bytes)]

\* "BitTorrent protocol"
Protocol == << 66, 105, 116, 84, 111, 114, 114, 101, 110, 116, 32,
               112, 114, 111, 116, 111, 99, 111, 108 >>

\* The values of the u32 fields, the byte strings and the messages of the model.
PmU32s == {0, 1, 2, U32 - 9, U32 - 1}
Payloads == UNION { [1..n -> {0, 255}] : n \in 0..MaxPayload }
Messages ==
    { [kind |-> k] : k \in {"KeepAlive", "Choke", "Unchoke", "Interested", "Uninterested"} }
    \cup { [kind |-> "Handshake", rsv |-> [i \in 1..8 |-> 0],
            hash |-> [i \in 1..20 |-> 1], id |-> [i \in 1..20 |-> 2]] }
    \cup { [kind |-> "Have", piece |-> n] : n \in {0, U32 - 1} }
    \cup { [kind |-> "Port", port |-> n] : n \in {0, 65535} }
    \cup { [kind |-> "Bitfield", bits |-> b] : b \in Payloads }
    \cup { [kind |-> k, index |-> i, begin |-> b, length |-> l] :
              k \in {"Request", "Cancel"}, i \in {0, 1}, b \in {0, 1}, l \in PmU32s }
    \cup { [kind |-> k, index |-> i, begin |-> b, length |-> l, data |-> d] :
              k \in {"Piece", "SharedPiece"}, i \in {0, 1}, b \in {0, 1},
              l \in PmU32s, d \in Payloads }
    \cup { [kind |-> "Extension", id |-> i, payload |-> d] : i \in {0, 1}, d \in Payloads }

\* Message::len (len itself names the length of a Download's file here)
Message_len(m) ==
    CASE m.kind = "Handshake" -> 68
      [] m.kind = "KeepAlive" -> 4
      [] m.kind \in {"Choke", "Unchoke", "Interested", "Uninterested"} -> 5
      [] m.kind = "Port" -> 7
      [] m.kind = "Have" -> 9
      [] m.kind = "Bitfield" -> 5 + Len(m.bits)
      [] m.kind \in {"Request", "Cancel"} -> 17
      [] m.kind \in {"Piece", "SharedPiece"} -> 13 + Len(m.data)
      [] m.kind = "Extension" -> 6 + Len(m.payload)

\* The writes of Message::encode, in order, the u32 sums wrapping.
Encoding(m) ==
    CASE m.kind = "Handshake" -> << 19 >> \o Protocol \o m.rsv \o m.hash \o m.id
      [] m.kind = "KeepAlive" -> BE(0, 4)
      [] m.kind = "Choke" -> BE(1, 4) \o BE(0, 1)
      [] m.kind = "Unchoke" -> BE(1, 4) \o BE(1, 1)
      [] m.kind = "Interested" -> BE(1, 4) \o BE(2, 1)
      [] m.kind = "Uninterested" -> BE(1, 4) \o BE(3, 1)
      [] m.kind = "Port" -> BE(3, 4) \o BE(9, 1) \o BE(m.port, 2)
      [] m.kind = "Have" -> BE(5, 4) \o BE(4, 1) \o BE(m.piece, 4)
      [] m.kind = "Bitfield" -> BE((1 + Len(m.bits)) % U32, 4) \o BE(5, 1) \o m.bits
      [] m.kind = "Request" ->
            BE(13, 4) \o BE(6, 1) \o BE(m.index, 4) \o BE(m.begin, 4) \o BE(m.length, 4)
      [] m.kind \in {"Piece", "SharedPiece"} ->
            BE((9 + m.length) % U32, 4) \o BE(7, 1) \o BE(m.index, 4) \o BE(m.begin, 4)
      [] m.kind = "Cancel" ->
            BE(13, 4) \o BE(8, 1) \o BE(m.index, 4) \o BE(m.begin, 4) \o BE(m.length, 4)
      [] m.kind = "Extension" ->
            BE((2 + Len(m.payload)) % U32, 4) \o BE(20, 1) \o BE(m.id, 1) \o m.payload

\* 9 + length leaves u32: a debug build panics there, a release build wraps.
Overflows(m) == m.kind \in {"Piece", "SharedPiece"} /\ 9 + m.length >= U32

\* Message::encode(&self, buf) with a buffer of cap bytes: the ways it can
\* end.  A write that does not fit fills the buffer and returns the error.
encode(m, cap) ==
    { [st  |-> IF Len(Encoding(m)) <= cap THEN "Ok" ELSE "Err",
       out |-> SubSeq(Encoding(m), 1, Min(cap, Len(Encoding(m))))] }
    \cup { [st |-> "panic", out |-> << >>] : x \in { y \in {1} : Overflows(m) } }

\* The sizes of the buffers encode is handed.
PmCaps == {3, 13, 68 + MaxPayload}

\* encode is called on the message.
PmEncode ==
    /\ job = "encode" /\ pmSt = "new"
    /\ \E cap \in PmCaps : \E o \in encode(pmMsg, cap) :
          /\ pmOut' = o.out
          /\ pmSt' = o.st
    /\ UNCHANGED <<pmMsg, notPm>>

NextMessage == PmEncode

PmInit == pmMsg \in Messages /\ pmOut = << >> /\ pmSt = "new"

PmIdle == pmMsg = [kind |-> "KeepAlive"] /\ pmOut = << >> /\ pmSt = "idle"

(***************************************************************************)
(* Listener                                                                *)
(***************************************************************************)
\* Number of connections that reach the listener, number of Requests that
\* wait in its channel, number of notifications of one poll batch, and
\* number of reads a handshake may take.
MaxConns == 2
MaxReqs == 2
MaxBatch == 3
HsParts == 2

\* The ids the registrar gave the TcpListener and the receiving end of the
\* channel; the connections get the ids after them.
lid == 0
rxId == 1

\* The table without the entry of id: incoming.remove(&pid).
Without(table, id) == [q \in DOMAIN table \ {id} |-> table[q]]

NoNotification == [op |-> "none", id |-> lid, rres |-> "none", sent |-> FALSE]

\* What is left of the batch once its first notification is dispatched.
Dispatched ==
    /\ batch' = Tail(batch)
    /\ lnPc' = IF Tail(batch) = << >> THEN "wait" ELSE "batch"

\* A peer connects to the port of the listener.
LnConnect ==
    /\ job = "Listener" /\ lnPc # "stopped"
    /\ (nextId - 2) + backlog < MaxConns
    /\ backlog' = backlog + 1
    /\ UNCHANGED <<lnPc, incoming, registered, nextId, batch, chan, handed, lnLast, notLn>>

\* The control thread sends a Request to the listener.
LnRequest ==
    /\ job = "Listener" /\ lnPc # "stopped"
    /\ Len(chan) < MaxReqs
    /\ \E r \in {"Ping", "Shutdown"} : chan' = Append(chan, r)
    /\ UNCHANGED <<lnPc, incoming, registered, nextId, batch, backlog, handed, lnLast, notLn>>

\* self.poll.wait(POLL_INT_MS) answers Ok(res): a notification, in any
\* order, for some of what is ready: the listener with connections to
\* accept, the channel with Requests to receive, registered connections.
poll_wait ==
    /\ job = "Listener" /\ lnPc = "wait"
    /\ LET ready == { i \in {lid} : backlog > 0 } \cup { i \in {rxId} : chan # << >> }
                    \cup registered
       IN  \E n \in 1..MaxBatch : \E b \in [1..n -> ready] :
              /\ \A i, j \in 1..n : i # j => b[i] # b[j]
              /\ batch' = b
    /\ lnPc' = "batch"
    /\ UNCHANGED <<incoming, registered, nextId, chan, backlog, handed, lnLast, notLn>>

\* handle_conn that registers the connections it accepts and puts none of
\* them in the incoming table.
handle_conn_no_insert ==
    /\ job = "Listener" /\ lnPc = "batch" /\ Head(batch) = lid
    /\ \E k \in 0..backlog :
          /\ registered' = registered \cup (nextId..(nextId + k - 1))
          /\ nextId' = nextId + k
    /\ backlog' = 0
    /\ lnLast' = [op |-> "conn", id |-> lid, rres |-> "none", sent |-> FALSE]
    /\ Dispatched
    /\ UNCHANGED <<incoming, chan, handed, notLn>>

\* Listener::handle_conn: accept until WouldBlock; each connection accepted
\* is registered and put in incoming under its id with a new Reader, or is
\* dropped when set_nonblocking or register fails.
handle_conn ==
    /\ job = "Listener" /\ lnPc = "batch" /\ Head(batch) = lid
    /\ \E k \in 0..backlog :
          /\ incoming' = [q \in DOMAIN incoming \cup (nextId..(nextId + k - 1)) |->
                             IF q \in DOMAIN incoming THEN incoming[q] ELSE 0]
          /\ registered' = registered \cup (nextId..(nextId + k - 1))
          /\ nextId' = nextId + k
    /\ backlog' = 0
    /\ lnLast' = [op |-> "conn", id |-> lid, rres |-> "none", sent |-> FALSE]
    /\ Dispatched
    /\ UNCHANGED <<chan, handed, notLn>>

\* The arm of the channel: recv until it has nothing more; Ping => continue,
\* Shutdown => return.
handle_requests ==
    /\ job = "Listener" /\ lnPc = "batch" /\ Head(batch) = rxId
    /\ IF \E i \in DOMAIN chan : chan[i] = "Shutdown"
       THEN LET i == CHOOSE i \in DOMAIN chan :
                         chan[i] = "Shutdown" /\ \A j \in 1..(i - 1) : chan[j] = "Ping"
            IN  /\ chan' = SubSeq(chan, i + 1, Len(chan))
                /\ lnPc' = "stopped"
                /\ batch' = Tail(batch)
       ELSE /\ chan' = << >>
            /\ Dispatched
    /\ lnLast' = [op |-> "chan", id |-> rxId, rres |-> "none", sent |-> FALSE]
    /\ UNCHANGED <<incoming, registered, nextId, backlog, handed, notLn>>

\* handle_peer that leaves a connection whose read failed in incoming.
handle_peer_keeps_failed ==
    /\ job = "Listener" /\ lnPc = "batch" /\ Head(batch) \notin {lid, rxId}
    /\ Head(batch) \in DOMAIN incoming
    /\ lnLast' = [op |-> "peer", id |-> Head(batch), rres |-> "Err", sent |-> FALSE]
    /\ Dispatched
    /\ UNCHANGED <<incoming, registered, nextId, chan, backlog, handed, notLn>>

\* Listener::handle_peer: the entry of the id is looked up (unwrap), its
\* Reader reads, and the result decides: Success removes the entry,
\* deregisters the connection and sends it to the control channel; Blocked
\* does nothing; Err and Stalled remove the entry, dropping the connection.
handle_peer ==
    /\ job = "Listener" /\ lnPc = "batch" /\ Head(batch) \notin {lid, rxId}
    /\ LET pid == Head(batch) IN
       IF pid \notin DOMAIN incoming
       THEN \* self.incoming.get_mut(&pid).unwrap() panics
            /\ lnPc' = "stopped" /\ batch' = Tail(batch)
            /\ lnLast' = [op |-> "peer", id |-> pid, rres |-> "panic", sent |-> FALSE]
            /\ UNCHANGED <<incoming, registered, handed>>
       ELSE /\ Dispatched
            /\ \/ \* RRes::Success(hs); deregister or send may fail
                  /\ incoming' = Without(incoming, pid)
                  /\ registered' = registered \ {pid}
                  /\ \E ok \in BOOLEAN :
                        /\ handed' = IF ok THEN Append(handed, pid) ELSE handed
                        /\ lnLast' = [op |-> "peer", id |-> pid, rres |-> "Success", sent |-> ok]
               \/ \* RRes::Blocked: the Reader keeps what it has read
                  /\ \E n \in incoming[pid]..(HsParts - 1) :
                        incoming' = [incoming EXCEPT ![pid] = n]
                  /\ lnLast' = [op |-> "peer", id |-> pid, rres |-> "Blocked", sent |-> FALSE]
                  /\ UNCHANGED <<registered, handed>>
               \/ \* RRes::Err(_) | RRes::Stalled
                  /\ incoming' = Without(incoming, pid)
                  /\ registered' = registered \ {pid}
                  /\ \E r \in {"Err", "Stalled"} :
                        lnLast' = [op |-> "peer", id |-> pid, rres |-> r, sent |-> FALSE]
                  /\ UNCHANGED handed
    /\ UNCHANGED <<nextId, chan, backlog, notLn>>

NextListener ==
    LnConnect \/ LnRequest \/ poll_wait \/ handle_conn \/ handle_requests \/ handle_peer

LnInit ==
    /\ lnPc = "wait"
    /\ incoming = << >> /\ registered = {}
    /\ nextId = 2
    /\ batch = << >> /\ chan = << >> /\ backlog = 0
    /\ handed = << >>
    /\ lnLast = NoNotification

LnIdle ==
    /\ lnPc = "stopped"
    /\ incoming = << >> /\ registered = {}
    /\ nextId = 2
    /\ batch = << >> /\ chan = << >> /\ backlog = 0
    /\ handed = << >>
    /\ lnLast = NoNotification

(***************************************************************************)
(* Specifications                                                          *)
(***************************************************************************)
Start == pc = "exec" /\ res = "None" /\ nterm = 0 /\ resp = NoResp

InitDownload ==
    job = "Download" /\ Start /\ DlInit /\ ValIdle /\ SerIdle /\ RwIdle /\ MvIdle /\ DelIdle /\ ExIdle /\ WfIdle /\ FaIdle /\ PmIdle /\ LnIdle
SpecDownload == InitDownload /\ [][NextDownload]_vars

InitValidate == Start /\ ValInit /\ DlIdle /\ SerIdle /\ RwIdle /\ MvIdle /\ DelIdle /\ ExIdle /\ WfIdle /\ FaIdle /\ PmIdle /\ LnIdle
SpecValidate == InitValidate /\ [][NextValidate]_vars

InitSerialize ==
    job = "Serialize" /\ Start /\ SerInit /\ DlIdle /\ ValIdle /\ RwIdle /\ MvIdle /\ DelIdle /\ ExIdle /\ WfIdle /\ FaIdle /\ PmIdle /\ LnIdle
SpecSerialize == InitSerialize /\ [][NextSerialize]_vars

InitReadWrite ==
    job = "ReadWrite" /\ Start /\ RwInit /\ DlIdle /\ ValIdle /\ SerIdle /\ MvIdle /\ DelIdle /\ ExIdle /\ WfIdle /\ FaIdle /\ PmIdle /\ LnIdle
SpecReadWrite == InitReadWrite /\ [][NextReadWrite]_vars

InitMove ==
    job = "Move" /\ Start /\ MvInit /\ DlIdle /\ ValIdle /\ SerIdle /\ RwIdle /\ DelIdle /\ ExIdle /\ WfIdle /\ FaIdle /\ PmIdle /\ LnIdle
SpecMove == InitMove /\ [][NextMove]_vars

InitDelete ==
    job = "Delete" /\ Start /\ DelInit /\ DlIdle /\ ValIdle /\ SerIdle /\ RwIdle /\ MvIdle /\ ExIdle /\ WfIdle /\ FaIdle /\ PmIdle /\ LnIdle
SpecDelete == InitDelete /\ [][NextDelete]_vars

InitExecutor ==
    job = "None" /\ Start /\ ExInit /\ DlIdle /\ ValIdle /\ SerIdle /\ RwIdle /\ MvIdle /\ DelIdle
       /\ WfIdle /\ FaIdle /\ PmIdle /\ LnIdle
SpecExecutor == InitExecutor /\ [][NextExecutor]_vars

\* A Download or a Validate whose continuations are executed again, whose
\* time slice lasts, again and again, for one step of the loop, and whose
\* socket, again and again, accepts bytes or fails.
DlWriteAnswers == DlWrite /\ (sent' # sent \/ pc' = "end")
NextProgress == NextDownload \/ NextValidate
SpecProgress ==
    /\ InitDownload \/ InitValidate
    /\ [][NextProgress]_vars
    /\ WF_vars(DlResume) /\ WF_vars(ValResume)
    /\ WF_vars(DlPaused) /\ WF_vars(ValReturn) /\ WF_vars(VpExecute)
    /\ SF_vars(ValPiece)
    /\ SF_vars(DlWriteAnswers) /\ SF_vars(DlAdvance) /\ SF_vars(DlRead) /\ SF_vars(DlDone)

InitWriteFile ==
    job = "WriteFile" /\ Start /\ WfInit /\ DlIdle /\ ValIdle /\ SerIdle /\ RwIdle /\ MvIdle /\ DelIdle /\ ExIdle
       /\ FaIdle /\ PmIdle /\ LnIdle
SpecWriteFile == InitWriteFile /\ [][NextWriteFile]_vars

\* fallocate, whose native call answers in the end something other than an
\* interruption.
InitFallocate ==
    job = "fallocate" /\ Start /\ FaInit /\ DlIdle /\ ValIdle /\ SerIdle /\ RwIdle /\ MvIdle /\ DelIdle /\ ExIdle
       /\ WfIdle /\ PmIdle /\ LnIdle
SpecFallocate == InitFallocate /\ [][NextFallocate]_vars /\ WF_vars(FaAnswered)

InitMessage ==
    job = "encode" /\ Start /\ PmInit /\ DlIdle /\ ValIdle /\ SerIdle /\ RwIdle /\ MvIdle /\ DelIdle /\ ExIdle
       /\ WfIdle /\ FaIdle /\ LnIdle
SpecMessage == InitMessage /\ [][NextMessage]_vars

InitListener ==
    job = "Listener" /\ Start /\ LnInit /\ DlIdle /\ ValIdle /\ SerIdle /\ RwIdle /\ MvIdle /\ DelIdle /\ ExIdle
       /\ WfIdle /\ FaIdle /\ PmIdle
SpecListener == InitListener /\ [][NextListener]_vars

InitSimple ==
    job \in {"Ping", "FreeSpace"} /\ Start /\ DlIdle /\ ValIdle /\ SerIdle /\ RwIdle /\ MvIdle /\ DelIdle /\ ExIdle /\ WfIdle /\ FaIdle /\ PmIdle /\ LnIdle

\* The worker with any one kind of request.
Init ==
    \/ InitDownload \/ InitValidate \/ InitSerialize \/ InitReadWrite
    \/ InitMove \/ InitDelete \/ InitExecutor \/ InitSimple
    \/ InitWriteFile \/ InitFallocate \/ InitMessage \/ InitListener
Next ==
    \/ NextDownload \/ NextValidate \/ NextSerialize \/ NextReadWrite
    \/ NextMove \/ NextDelete \/ NextExecutor \/ NextSimple
    \/ NextWriteFile \/ NextFallocate \/ NextMessage \/ NextListener
Spec == Init /\ [][Next]_vars

(***************************************************************************)
(* What a Download must deliver                                            *)
(***************************************************************************)
\* The file bytes of the requested ranges R1..Rn, each part preceded by its
\* part header and the whole closed by the boundary when multipart is asked.
ExpectedBody(ranges, ranged, len) ==
    IF ranged /\ Len(ranges) > 1
    THEN Flatten([i \in 1..Len(ranges) |->
                    PartHeader(ranges[i], len) \o FileSlice(ranges[i].start, ranges[i].length)])
         \o Closer
    ELSE Flatten([i \in 1..Len(ranges) |-> FileSlice(ranges[i].start, ranges[i].length)])

ExpectedStream(a) ==
    ResponseHeaders(a.ranges, a.ranged, FileLen) \o ExpectedBody(a.ranges, a.ranged, FileLen)

IsPrefix(s, t) == Len(s) <= Len(t) /\ s = SubSeq(t, 1, Len(s))

\* C1: for every request built by Request::download and every interleaving
\* of partial writes, Blocked and Paused continuations, the bytes the socket
\* received when the job returns Done are the response headers followed by
\* the file bytes of R1..Rn in order, framed as multipart exactly when
\* ranged = true and n > 1; before Done they are a prefix of that stream.
C1_DownloadDeliversRanges ==
    job = "Download" =>
        /\ IsPrefix(sent, ExpectedStream(arg))
        /\ res = "Done" => sent = ExpectedStream(arg)

\* What the code does deliver: the same, for the requests that keep to the
\* callers' convention (ranged = false with at most one range).
DeliversOnUnrangedSingle ==
    (job = "Download" /\ (arg.ranged \/ Len(arg.ranges) <= 1) /\ res = "Done") =>
        sent = ResponseHeaders(arg.ranges, arg.ranged, FileLen)
               \o (IF arg.ranged /\ Len(arg.ranges) = 0 THEN Closer
                   ELSE ExpectedBody(arg.ranges, arg.ranged, FileLen))

(***************************************************************************)
(* Outcomes of a request                                                   *)
(***************************************************************************)
\* C2: a request, with each continuation it returns executed again, ends in
\* one terminal result (Done, a Resp or an error): never a second one, and
\* no continuation after it.
C2_OneTerminalOutcome ==
    /\ nterm <= 1
    /\ nterm = 1 <=> pc = "end"
    /\ pc = "end" <=> res \in Terminals
    /\ pc = "cont" => res \in Continuations
    /\ res \in {"Paused", "Blocked"} => job = "Download"
    /\ res = "Update" => job = "Validate"

\* A Validate that ended after at least one Update.
C2_Witness == job = "Validate" /\ pc = "end" /\ res = "Resp" /\ nupd >= 1

(***************************************************************************)
(* Validate and ValidatePiece                                              *)
(***************************************************************************)

\* A read of the piece's locations that fails on the disk at hand.
ReadFails(t, loc) == ~read_file_range(t.disk, loc.file, loc.offset, loc.end - loc.start).ok
SomeReadFails(t, p) == \E k \in DOMAIN t.locs[p + 1] : ReadFails(t, t.locs[p + 1][k])

\* C3: the invalid list of the ValidationComplete that ends a Validate is
\* exactly the set of pieces for which ValidatePiece answers valid = false
\* on the same disk.
C3_InvalidIsValidatePieceFalse ==
    (job = "Validate" /\ resp.kind = "ValidationComplete") =>
        /\ Range(resp.invalid) = { p \in 0..(pieces(tor) - 1) : ~ValidatePiece(tor, p) }
        /\ Cardinality(Range(resp.invalid)) = Len(resp.invalid)

\* C4: every ValidationUpdate carries percent = idx / pieces, between 0 and 1
\* and not below the percent of the Update before it; a ValidationComplete is
\* returned at most once and nothing is returned after it.
C4_UpdatesThenOneComplete ==
    job = "Validate" =>
        /\ resp.kind = "ValidationUpdate" =>
              /\ resp.den = pieces(tor) /\ resp.den > 0
              /\ pc = "cont" => resp.num = val.idx
              /\ 0 <= resp.num /\ resp.num <= resp.den
              /\ prevPct.num * resp.den <= resp.num * prevPct.den
        /\ resp.kind \in {"None", "ValidationUpdate", "ValidationComplete"}
        /\ resp.kind = "ValidationComplete" <=> pc = "end"
        /\ nterm <= 1

\* A second Update with a larger percent than the first.
C4_Witness ==
    /\ job = "Validate" /\ pc = "cont" /\ nupd = 2
    /\ prevPct.num * resp.den < resp.num * prevPct.den

\* The invalid list of a Validate that hashes every piece in one slice.
RECURSIVE OneSlice(_, _)
OneSlice(t, idx) ==
    IF idx = pieces(t) THEN << >>
    ELSE (IF PieceInvalid(t, idx) THEN << idx >> ELSE << >>) \o OneSlice(t, idx + 1)

\* C5: the invalid list of the final ValidationComplete is the one a single
\* slice over all pieces gives, however the work was cut into slices.
C5_InvalidIndependentOfSlices ==
    (job = "Validate" /\ resp.kind = "ValidationComplete") =>
        resp.invalid = OneSlice(tor, 0)

\* A Validate cut into three slices or more that found an invalid piece in
\* its first slices.
C5_Witness ==
    /\ job = "Validate" /\ resp.kind = "ValidationComplete"
    /\ nupd = 2 /\ resp.invalid # << >> /\ Head(resp.invalid) = 0

\* The bytes of the piece's locations that can be read, in location order.
RECURSIVE ReadableBytes(_, _)
ReadableBytes(t, locs) ==
    IF locs = << >> THEN << >>
    ELSE LET loc == Head(locs)
             r == read_file_range(t.disk, loc.file, loc.offset, loc.end - loc.start)
         IN  r.data \o ReadableBytes(t, Tail(locs))

\* C6: ValidatePiece(p) answers valid = true exactly when the hash of the
\* bytes read at the locations of p, concatenated in location order, is
\* info.hashes[p].
C6_ValidIffHashOfReads ==
    (job = "ValidatePiece" /\ resp.kind = "PieceValidated") =>
        /\ resp.piece = val.idx
        /\ resp.valid <=> Sha1(ReadableBytes(tor, tor.locs[val.idx + 1])) = tor.hashes[val.idx + 1]

\* A piece lying across two files, both read, found valid.
C6_Witness ==
    /\ job = "ValidatePiece" /\ resp.kind = "PieceValidated" /\ resp.valid
    /\ Len(tor.locs[val.idx + 1]) = 2 /\ ~SomeReadFails(tor, val.idx)

\* C7: when the read of a location of the piece fails, ValidatePiece answers
\* valid = false.
C7_ReadFailureIsInvalid ==
    (job = "ValidatePiece" /\ resp.kind = "PieceValidated" /\ SomeReadFails(tor, val.idx)) =>
        ~resp.valid

(***************************************************************************)
(* Serialize                                                               *)
(***************************************************************************)
\* C8: a Serialize that returns Done leaves the final file with exactly the
\* request's data, and no temp file, whatever requests came before.
C8_DoneLeavesExactlyData ==
    (job = "Serialize" /\ res = "Done") =>
        /\ finalf = File(sreq)
        /\ ~tempf.exists

\* C9: the final file does not exist or holds the complete data of an earlier
\* Serialize that succeeded, in every state.
C9_FinalIsSerializedData ==
    job = "Serialize" => (~finalf.exists \/ finalf.data \in serialized)

\* What holds of a failing Serialize: it leaves the final file as it was.
FailureLeavesFinal == [][(job = "Serialize" /\ res' = "Err") => finalf' = finalf]_vars

(***************************************************************************)
(* Write, then Read                                                        *)
(***************************************************************************)
\* C10: a Read that succeeds over the locations of the last Write, which
\* succeeded, answers the written bytes on every [start, end) of the
\* locations, with the context of the Read request.
C10_ReadReturnsWritten ==
    (job = "ReadWrite" /\ resp.kind = "Read" /\ wreq.ok
        /\ rreq.locations = wreq.locations) =>
        /\ \A k \in DOMAIN rreq.locations :
              \A i \in (rreq.locations[k].start + 1)..rreq.locations[k].end :
                  resp.data[i] = wreq.data[i]
        /\ resp.context = rreq.context

\* A block written across two files and read back.
C10_Witness ==
    /\ job = "ReadWrite" /\ resp.kind = "Read" /\ wreq.ok
    /\ rreq.locations = wreq.locations /\ Len(rreq.locations) >= 2
    /\ wreq.data = << 0, 1 >> /\ resp.context.pid = 2

(***************************************************************************)
(* Results of a Download                                                   *)
(***************************************************************************)
\* C15: a call of execute on a Download returns Blocked exactly when its
\* last socket write would block, and Paused when it hands back a
\* continuation without having blocked; it returns Done only with
\* writing = false, range_idx at the number of ranges and no length left in
\* any range; the continuation holds the fields as they were at the return.
C15_DownloadResults ==
    [][ job' = "Download" =>
          /\ (res' = "Blocked" /\ pc' = "cont") <=> lastIor' = "Blocked"
          /\ (res' = "Paused" /\ pc' = "cont") <=> (pc' = "cont" /\ lastIor' # "Blocked")
          /\ res' = "Done" =>
                /\ ~dl'.writing
                /\ dl'.range_idx = Len(dl'.ranges)
                /\ \A i \in 1..Len(dl'.ranges) : dl'.ranges[i].length = 0
          /\ (pc' = "cont" /\ pc # "cont") => dl' = dl ]_vars

\* A write blocks in the middle of the buffer, after the first range.
C15_Witness ==
    /\ job = "Download" /\ res = "Blocked" /\ pc = "cont"
    /\ dl.buf_idx > 0 /\ dl.range_idx > 0

\* The tokens of a multipart body.
Multipart == { t \in Range(sent) : t.t \in {"MP_BOUNDARY", "MP_BOUNDARY--"} }

\* C16: a Download built with ranged = true and one range gets the 206
\* status with a top-level Content-Range, no sentinel range, and no part
\* header or closing boundary on the socket; the sentinel zero-length range
\* is prepended exactly when ranged = true and the number of ranges is not 1.
C16_SingleRangeCollapses ==
    job = "Download" =>
        /\ (arg.ranged /\ Len(arg.ranges) = 1) =>
              /\ IsPrefix(sent, << Tok("206 Content-Length", arg.ranges[1].length, 0, 0),
                                    Tok("Content-Range", arg.ranges[1].start,
                                        RangeEnd(arg.ranges[1]), FileLen) >>
                                 \o FileSlice(arg.ranges[1].start, arg.ranges[1].length))
              /\ Len(dl.ranges) = 1
              /\ Multipart = {}
        /\ IF arg.ranged /\ Len(arg.ranges) # 1
           THEN Len(dl.ranges) = Len(arg.ranges) + 1 /\ dl.ranges[1].length = 0
           ELSE Len(dl.ranges) = Len(arg.ranges)

\* A ranged request for the whole file, longer than the buffer, is Done.
C16_Witness ==
    /\ job = "Download" /\ res = "Done"
    /\ arg.ranged /\ Len(arg.ranges) = 1 /\ arg.ranges[1].length = FileLen
    /\ Len(sent) = 2 + FileLen

\* C20: when a socket write of a Download answers an error or EOF, in the
\* first call of execute or in a resumed continuation, the call returns an
\* error: no continuation, no byte written by that call after it, and no
\* Response for the control plane, a Download having no tid.
C20_SocketErrorEndsDownload ==
    [][ (job' = "Download" /\ lastIor' \in {"EOF", "Err"}) =>
          /\ pc' = "end" /\ res' = "Err"
          /\ sent' = sent
          /\ Emitted' = "None" ]_vars

\* The socket fails in a continuation, after bytes of the file were sent.
C20_Witness ==
    /\ job = "Download" /\ lastIor = "EOF" /\ pc = "end"
    /\ dl.range_idx > 0 /\ \E i \in 1..Len(sent) : sent[i].t = "data"

(***************************************************************************)
(* Move                                                                    *)
(***************************************************************************)
\* C11: a Move that returns a response returns Moved with path = to, and
\* then, by rename or by copy and remove, to/target holds every file of the
\* from/target the Move found, byte for byte, and nothing is at from/target.
C11_MovedHoldsEveryFile ==
    (job = "Move" /\ res = "Resp") =>
        /\ resp.kind = "Moved" /\ resp.path = "to"
        /\ mvOrig.from.files \subseteq mvTo.files
        /\ ~mvFrom.exists

\* What holds of a Move that went by rename alone.
MovedByRenameHoldsEveryFile ==
    (job = "Move" /\ res = "Resp" /\ mvPath = "rename") =>
        /\ resp.kind = "Moved" /\ resp.path = "to"
        /\ mvTo = mvOrig.from
        /\ ~mvFrom.exists

\* C12: when the rename fails with EXDEV and the copy fails, the Move
\* returns an error, to/target is removed and from/target is as it was;
\* when the rename fails with another error, the error is returned and both
\* directories are as they were.
C12_FailedCopyRemovesDestination ==
    (job = "Move" /\ pc = "end") =>
        /\ mvPath \in {"copy failed", "copy failed, remove failed"} =>
              /\ res = "Err" /\ resp.kind # "Moved"
              /\ ~mvTo.exists
              /\ mvFrom = mvOrig.from
        /\ mvPath = "rename failed" =>
              /\ res = "Err" /\ resp.kind # "Moved"
              /\ mvFrom = mvOrig.from /\ mvTo = mvOrig.to

\* C12 as the code has it: the same, except that to/target is removed only
\* if remove_dir_all succeeds; when it fails its error is the one returned
\* and what it left of to/target stays.
C12_FailedCopyTriesToRemoveDestination ==
    (job = "Move" /\ pc = "end") =>
        /\ mvPath \in {"copy failed", "copy failed, remove failed"} =>
              /\ res = "Err" /\ resp.kind # "Moved"
              /\ mvPath = "copy failed" => ~mvTo.exists
              /\ mvFrom = mvOrig.from
        /\ mvPath = "rename failed" =>
              /\ res = "Err" /\ resp.kind # "Moved"
              /\ mvFrom = mvOrig.from /\ mvTo = mvOrig.to

\* A copy into a directory that was there failed, and the directory is gone.
C12_Witness ==
    /\ job = "Move" /\ pc = "end" /\ mvPath = "copy failed"
    /\ mvOrig.to.exists /\ mvOrig.to.files # {} /\ ~mvTo.exists

(***************************************************************************)
(* Delete                                                                  *)
(***************************************************************************)
\* C13: the data files and the torrent's directory are touched only when
\* artifacts is true: a Delete with artifacts = false leaves every file and
\* directory below the download directory as it was.
C13_NoArtifactsLeavesData ==
    (job = "Delete" /\ pc = "end" /\ ~delReq.artifacts) =>
        /\ delFs.files = delOrig.fs.files
        /\ delFs.dir = delOrig.fs.dir

\* What holds without artifacts: no file is deleted.
NoArtifactsLeavesFiles ==
    (job = "Delete" /\ pc = "end" /\ ~delReq.artifacts) => delFs.files = delOrig.fs.files

ValidatesInFlight ==
    { r \in DOMAIN exSt : exKind[r] = "Validate" /\ exSt[r] \in {"running", "updated"} }

\* C17: concurrent() is false for a Validate, the request of an Update
\* included, and true for any other variant, so that the executor which
\* defers the requests that are not concurrent never has two Validates of
\* the torrent in flight.
C17_ValidateNotConcurrent ==
    job = "None" =>
        /\ \A r \in DOMAIN exKind : concurrent(exKind[r]) <=> exKind[r] # "Validate"
        /\ Cardinality(ValidatesInFlight) <= 1

\* A second Validate waits while the first is between two slices.
C17_Witness ==
    /\ job = "None"
    /\ \E r, q \in DOMAIN exSt :
          /\ exKind[r] = "Validate" /\ exSt[r] = "updated"
          /\ exKind[q] = "Validate" /\ exSt[q] = "deferred"

(***************************************************************************)
(* Errors                                                                  *)
(***************************************************************************)
\* C18: a FreeSpace whose statvfs fails reaches the control plane as an
\* Error response.
C18_StatFailureIsError ==
    (job = "FreeSpace" /\ res = "Err") => Emitted = "Error"

\* C19: a Validate some of whose reads fail ends with an Error, never with
\* a ValidationComplete.
C19_ReadFailureIsError ==
    (job = "Validate" /\ pc = "end"
       /\ \E p \in 0..(pieces(tor) - 1) : SomeReadFails(tor, p)) =>
        Emitted = "Error"

\* C19 as the code has it: a Validate ends with a ValidationComplete, never
\* an Error, and every piece with a read that fails is in its invalid list.
C19_ReadFailureMarksInvalid ==
    (job = "Validate" /\ pc = "end") =>
        /\ Emitted = "ValidationComplete"
        /\ \A p \in 0..(pieces(tor) - 1) :
              SomeReadFails(tor, p) => p \in Range(resp.invalid)

\* A Validate ended after an Update, with a read that failed in each piece.
C19_Witness ==
    /\ job = "Validate" /\ pc = "end" /\ nupd >= 1
    /\ \A p \in 0..(pieces(tor) - 1) : SomeReadFails(tor, p)

(***************************************************************************)
(* The time slice                                                          *)
(***************************************************************************)
\* C23: between two tests of the clock a Validate hashes at most one piece
\* and a Download takes at most one step: a drain of the buffer (at most
\* 16_384 bytes), a range advance, or a file read (at most 16_384 bytes);
\* once the slice is used up no piece is hashed and no step taken before
\* the call returns.
C23_OneStepPerClockTest ==
    [][ /\ (job = "Validate" /\ pc = "exec") =>
              /\ val'.idx \in {val.idx, val.idx + 1}
              /\ valExpired => (val' = val /\ pc' # "exec")
        /\ (job = "Download" /\ pc = "exec") =>
              /\ Cardinality({ c \in {"drain", "advance", "read"} :
                     \/ c = "drain" /\ sent' # sent
                     \/ c = "advance" /\ dl'.range_idx # dl.range_idx
                     \/ c = "read" /\ dl'.ranges # dl.ranges }) <= 1
              /\ dl'.range_idx - dl.range_idx <= 1
              /\ Lengths(dl.ranges) - Lengths(dl'.ranges) <= BufLen
              /\ dlExpired => (dl' = dl /\ sent' = sent /\ pc' # "exec")
        /\ (job = "Download" /\ pc \in {"exec", "drain"}) =>
              /\ Len(sent') - Len(sent) <= dl.buf_max - dl.buf_idx
              /\ dl.buf_max - dl.buf_idx <= BufLen
        /\ (job = "Download" /\ pc = "drain") =>
              (dl'.range_idx = dl.range_idx /\ dl'.ranges = dl.ranges) ]_vars

\* The slice of a Validate ran out after one piece: an Update is returned.
C23_Witness ==
    /\ job = "Validate" /\ pc = "cont" /\ valExpired
    /\ val.idx = valEntry + 1 /\ val.idx < pieces(tor)

(***************************************************************************)
(* Framing and buffer of a Download                                        *)
(***************************************************************************)
\* C24: a Download whose ranged flag is false, with any number of ranges,
\* never writes a part header or a closing boundary to the socket.
C24_NoFramingUnlessRanged ==
    (job = "Download" /\ ~dl.ranged) => Multipart = {}

\* C25: every Content-Range written for a range is bytes S-E/L with
\* L = file_len and E = S + length - 1, the sum not having wrapped, for
\* every range the request carries, one of length 0 included.
C25_ContentRangeEnd ==
    job = "Download" =>
        \A t \in Range(sent) :
            t.t = "Content-Range" =>
               /\ t.c = FileLen
               /\ \E r \in Range(arg.ranges) :
                     t.a = r.start /\ t.b = r.start + r.length - 1

\* C28: in every state of a Download 0 <= buf_idx <= buf_max <= 16_384 and
\* range_idx <= number of ranges, and whenever a socket write is about to
\* be made the slice buf[buf_idx..buf_max] is not empty.
C28_BufferBounds ==
    job = "Download" =>
        /\ 0 <= dl.buf_idx /\ dl.buf_idx <= dl.buf_max /\ dl.buf_max <= BufLen
        /\ dl.range_idx <= Len(dl.ranges)
        /\ ((pc = "exec" /\ dl.writing) \/ pc = "drain") => dl.buf_idx < dl.buf_max

\* A continuation is resumed in the middle of its buffer, in its last range.
C28_Witness ==
    /\ job = "Download" /\ pc = "exec" /\ res = "Paused" /\ dl.writing
    /\ dl.buf_idx > 0 /\ dl.range_idx = Len(dl.ranges) - 1 /\ dl.range_idx > 0

(***************************************************************************)
(* The state of a Validate                                                 *)
(***************************************************************************)
\* C29: in every Validate request of a chain started by Request::validate,
\* idx <= pieces, the invalid list is strictly increasing, each of its
\* elements is below idx, and the pieces below idx are those examined, each
\* once.
C29_ValidateState ==
    job = "Validate" =>
        /\ val.idx <= pieces(tor)
        /\ \A i \in 1..Len(val.invalid) : val.invalid[i] < val.idx
        /\ \A i, j \in 1..Len(val.invalid) : i < j => val.invalid[i] < val.invalid[j]
        /\ examined = [i \in 1..val.idx |-> i - 1]

\* Two invalid pieces were found in two calls of execute.
C29_Witness ==
    /\ job = "Validate" /\ pc = "end" /\ nupd >= 1
    /\ val.invalid = << 0, 1 >> /\ valEntry = 1

(***************************************************************************)
(* Progress                                                                *)
(***************************************************************************)
\* C30: the Validate request of an Update has a strictly larger idx than
\* the request whose execution returned it, and the Download request of a
\* Paused or Blocked has strictly less left to deliver; and every Validate
\* ends in ValidationComplete, every Download in Done or an error.
C30_ContinuationsProgress ==
    /\ [][ (pc # "cont" /\ pc' = "cont") =>
             /\ job = "Validate" => val'.idx > valEntry
             /\ job = "Download" => Left(dl') < dlEntry ]_vars
    /\ <>(pc = "end")

\* C30 as the code has it: a continuation never has less done than the
\* request that produced it (idx has grown by the pieces hashed, what is
\* left to deliver has shrunk by the bytes the socket accepted), and may
\* have no more done; and every Validate ends in ValidationComplete, every
\* Download in Done or an error.
C30_ContinuationsNeverRegress ==
    /\ [][ /\ job = "Validate" =>
                 /\ val'.idx >= val.idx
                 /\ val'.idx - val.idx = Len(examined') - Len(examined)
                 /\ (pc # "cont" /\ pc' = "cont") => val'.idx >= valEntry
           /\ job = "Download" =>
                 /\ Left(dl') = Left(dl) - (Len(sent') - Len(sent))
                 /\ (pc # "cont" /\ pc' = "cont") => Left(dl') <= dlEntry ]_vars
    /\ <>(/\ pc = "end"
          /\ job = "Validate" => resp.kind = "ValidationComplete"
          /\ job = "Download" => res \in {"Done", "Err"})

\* A resumed Download blocks at its first write: nothing more is delivered.
C30_Witness ==
    /\ job = "Download" /\ pc = "cont" /\ res = "Blocked"
    /\ sent # << >> /\ Left(dl) = dlEntry

(***************************************************************************)
(* The calls of a Write on the FileCache                                   *)
(***************************************************************************)
\* C21: when write_file_range fails for a location of a Write, execute
\* returns the error at once: the failing call is the last call of the
\* request and is made once, no later location is written or flushed, the
\* writes of the earlier locations stay applied, and the error reaches the
\* control plane as an Error for the torrent of the request.
C21_WriteFailureReturnsAtOnce ==
    [][ (/\ job = "ReadWrite" /\ pc = "exec"
         /\ fcCalls' # << >> /\ fcCalls'[1].name = "write_file_range"
         /\ \E i \in DOMAIN fcCalls' : ~fcCalls'[i].ok) =>
            LET n == Len(fcCalls')
                k == fcCalls'[n].loc
            IN  /\ fcCalls'[n] = Call("write_file_range", k, FALSE)
                /\ \A i \in 1..(n - 1) : fcCalls'[i].ok /\ fcCalls'[i].loc < k
                /\ \A j \in 1..(k - 1) :
                      \E i \in 1..(n - 1) : fcCalls'[i] = Call("write_file_range", j, TRUE)
                /\ disk' = WriteLocs(disk, wreq'.locations, wreq'.data, k)
                /\ pc' = "end" /\ res' = "Err" /\ nterm' = 1
                /\ Emitted' = "Error" ]_vars

\* The write of the second of three locations failed: the first is written
\* and flushed, the third untouched.
C21_Witness ==
    /\ job = "ReadWrite" /\ pc = "end" /\ res = "Err"
    /\ Len(wreq.locations) = 3
    /\ fcCalls = << Call("write_file_range", 1, TRUE), Call("flush_file", 1, TRUE),
                    Call("write_file_range", 2, FALSE) >>
    /\ disk[0].exists /\ ~disk[1].exists

\* C26: in a Write, after the write of each location the file is flushed
\* exactly when the location is shorter than 16_384 bytes; after a write of
\* exactly 16_384 bytes it is not; and nothing else is flushed.
C26_FlushIffShortWrite ==
    (job = "ReadWrite" /\ fcCalls # << >> /\ fcCalls[1].name = "write_file_range") =>
        \A i \in DOMAIN fcCalls :
            LET c == fcCalls[i]
                loc == wreq.locations[c.loc]
            IN  /\ (c.name = "write_file_range" /\ c.ok) =>
                      ((i < Len(fcCalls) /\ fcCalls[i + 1] = Call("flush_file", c.loc, TRUE))
                          <=> loc.end - loc.start < BlockLen)
                /\ c.name = "flush_file" =>
                      (i > 1 /\ fcCalls[i - 1] = Call("write_file_range", c.loc, TRUE))

\* A Write of one location of a full block is Done: one write, no flush.
C26_Witness ==
    /\ job = "ReadWrite" /\ res = "Done" /\ wreq.ok
    /\ Len(wreq.locations) = 1
    /\ wreq.locations[1].end - wreq.locations[1].start = BlockLen
    /\ fcCalls = << Call("write_file_range", 1, TRUE) >>

(***************************************************************************)
(* WriteFile                                                               *)
(***************************************************************************)
\* C22: a WriteFile always returns Done, with no response and no error;
\* when opening the temp file, writing it or renaming it failed, no temp
\* file remains and the target is as it was; when nothing failed the target
\* holds exactly the data of the request.
C22_WriteFileAllOrNothing ==
    (job = "WriteFile" /\ pc = "end") =>
        /\ res = "Done" /\ resp = NoResp /\ Emitted = "None"
        /\ wfLast.failed # "none" => (~wfTemp.exists /\ wfTarget = wfLast.before)
        /\ wfLast.failed = "none" => wfTarget = File(wfReq)

(***************************************************************************)
(* fallocate                                                               *)
(***************************************************************************)
\* C27: fallocate calls native_fallocate again each time it is interrupted
\* and returns on any other answer: Ok(true) on 0; on EOPNOTSUPP or ENOSYS
\* Ok(false) with the file at length len; on ENOSPC the out-of-space error
\* with the length of the file as it was; an error on any other errno; and
\* a call whose interruptions stop returns.
C27_FallocateOutcomes ==
    /\ [][ faErrno' = "EINTR" => (faPc' = "call" /\ faLen' = faLen /\ faRes' = "None") ]_vars
    /\ [](faPc = "done" /\ job = "fallocate" =>
             /\ faErrno \notin {"EINTR", "None"}
             /\ faErrno = "0" => faRes = "Ok(true)"
             /\ faErrno \in {"EOPNOTSUPP", "ENOSYS"} => (faRes = "Ok(false)" /\ faLen = faReq)
             /\ faErrno = "ENOSPC" => (faRes = "Err(Out of disk space!)" /\ faLen = faOrig)
             /\ faErrno \in {"EBADF", "EFBIG", "EIO"} => (faRes = "Err(desc)" /\ faLen = faOrig))
    /\ (job = "fallocate" /\ faPc = "call") ~> (faPc = "done")

\* C27 as the code has it: on EOPNOTSUPP or ENOSYS fallocate returns
\* Ok(false) with the file at length len when set_len succeeds, and the
\* error of set_len, the length as it was, when it fails.
C27_FallocateOutcomesSetLenMayFail ==
    /\ [][ faErrno' = "EINTR" => (faPc' = "call" /\ faLen' = faLen /\ faRes' = "None") ]_vars
    /\ [](faPc = "done" /\ job = "fallocate" =>
             /\ faErrno \notin {"EINTR", "None"}
             /\ faErrno = "0" => faRes = "Ok(true)"
             /\ faErrno \in {"EOPNOTSUPP", "ENOSYS"} =>
                   \/ faRes = "Ok(false)" /\ faLen = faReq
                   \/ faRes = "Err(set_len)" /\ faLen = faOrig
             /\ faErrno = "ENOSPC" => (faRes = "Err(Out of disk space!)" /\ faLen = faOrig)
             /\ faErrno \in {"EBADF", "EFBIG", "EIO"} => (faRes = "Err(desc)" /\ faLen = faOrig))
    /\ (job = "fallocate" /\ faPc = "call") ~> (faPc = "done")

\* A call interrupted twice fell back to set_len, which cut the file.
C27_Witness ==
    /\ job = "fallocate" /\ faPc = "done" /\ faIntr = 2
    /\ faErrno = "ENOSYS" /\ faRes = "Ok(false)"
    /\ faLen = faReq /\ faLen < faOrig

(***************************************************************************)
(* Peer messages                                                           *)
(***************************************************************************)
\* The length prefix and the number of bytes written agree with len() for
\* every message that carries no piece data.
PlainMessagesAgree ==
    (job = "encode" /\ pmSt = "Ok" /\ pmMsg.kind \notin {"Piece", "SharedPiece"}) =>
        /\ Len(pmOut) = Message_len(pmMsg)
        /\ pmMsg.kind # "Handshake" => FromBE(SubSeq(pmOut, 1, 4)) = Message_len(pmMsg) - 4

\* C33: for every message other than Handshake the 4-byte big-endian
\* prefix encode writes is len() - 4; for every message other than Piece
\* and SharedPiece encode writes exactly len() bytes; for Piece and
\* SharedPiece it writes the 13 bytes of the header and the prefix is
\* 9 + length, for every value of the length field and of the data.
C33_PrefixAgreesWithLen ==
    job = "encode" =>
        /\ pmSt # "panic"
        /\ pmSt = "Ok" =>
              /\ pmMsg.kind # "Handshake" => FromBE(SubSeq(pmOut, 1, 4)) = Message_len(pmMsg) - 4
              /\ pmMsg.kind \notin {"Piece", "SharedPiece"} => Len(pmOut) = Message_len(pmMsg)
              /\ pmMsg.kind \in {"Piece", "SharedPiece"} =>
                    /\ Len(pmOut) = 13
                    /\ FromBE(SubSeq(pmOut, 1, 4)) = 9 + pmMsg.length

(***************************************************************************)
(* Listener                                                                *)
(***************************************************************************)
\* A step of Listener::run that dispatches the first notification of the batch.
Dispatches == batch # << >> /\ batch' = Tail(batch)

\* C31: a connection is sent to the control channel only by the
\* handle_peer whose read returned Success, and once: at that moment it is
\* in incoming no more and registered with the poller no more; ids are not
\* given twice, so what left incoming never comes back.  A connection
\* whose read returned Err or Stalled leaves incoming and is not sent; one
\* whose read returned Blocked stays in incoming, registered, and the
\* other entries, the registrations and what was sent are as they were.
C31_HandOffAfterSuccessOnly ==
    [][ job = "Listener" =>
          /\ handed' # handed =>
                /\ Dispatches
                /\ lnLast'.op = "peer" /\ lnLast'.rres = "Success" /\ lnLast'.id = Head(batch)
                /\ handed' = Append(handed, Head(batch))
                /\ Head(batch) \in DOMAIN incoming
                /\ Head(batch) \notin DOMAIN incoming'
                /\ Head(batch) \notin registered'
                /\ Head(batch) \notin Range(handed)
          /\ \A q \in DOMAIN incoming' \ DOMAIN incoming : q >= nextId /\ q \notin Range(handed)
          /\ (Dispatches /\ lnLast'.op = "peer" /\ lnLast'.rres \in {"Err", "Stalled"}) =>
                /\ Head(batch) \in DOMAIN incoming
                /\ Head(batch) \notin DOMAIN incoming'
                /\ handed' = handed
          /\ (Dispatches /\ lnLast'.op = "peer" /\ lnLast'.rres = "Blocked") =>
                /\ DOMAIN incoming' = DOMAIN incoming
                /\ \A q \in DOMAIN incoming \ {Head(batch)} : incoming'[q] = incoming[q]
                /\ registered' = registered /\ Head(batch) \in registered
                /\ handed' = handed ]_vars

\* One connection was handed to the control channel, then the read of
\* another failed.
C31_Witness ==
    /\ job = "Listener" /\ Len(handed) = 1
    /\ lnLast.op = "peer" /\ lnLast.rres = "Stalled" /\ lnLast.id # handed[1]
    /\ lnLast.id \notin DOMAIN incoming

\* C32: whatever the order of accepts, handshakes, failures, Pings and
\* Shutdowns in and across the batches, every notification handle_peer is
\* given names an entry of incoming; the receipt of a Shutdown stops the
\* loop there, the rest of the batch undispatched; and receiving Pings
\* changes nothing of the listener but the channel they are taken from.
C32_DispatchFindsConnection ==
    [][ job = "Listener" =>
          /\ (Dispatches /\ Head(batch) \notin {lid, rxId}) =>
                /\ Head(batch) \in DOMAIN incoming
                /\ lnLast'.op = "peer" /\ lnLast'.rres # "panic"
          /\ (Dispatches /\ Head(batch) = rxId) =>
                /\ <<incoming, registered, nextId, backlog, handed>>'
                      = <<incoming, registered, nextId, backlog, handed>>
                /\ (\E i \in DOMAIN chan : chan[i] = "Shutdown") <=> lnPc' = "stopped"
                /\ \E n \in 0..Len(chan) :
                      /\ chan' = SubSeq(chan, n + 1, Len(chan))
                      /\ \A j \in 1..(n - 1) : chan[j] = "Ping"
                      /\ lnPc' = "stopped" => (n >= 1 /\ chan[n] = "Shutdown")
                      /\ lnPc' # "stopped" => (n = Len(chan) /\ (n >= 1 => chan[n] = "Ping"))
          /\ lnPc = "stopped" => lnVars' = lnVars ]_vars

\* A Shutdown was received after a Ping, with a connection in incoming
\* whose notification of the same batch is never dispatched.
C32_Witness ==
    /\ job = "Listener" /\ lnPc = "stopped" /\ lnLast.op = "chan"
    /\ batch # << >> /\ Head(batch) \in DOMAIN incoming
    /\ handed # << >>

=============================================================================
